---------------------------- MODULE Spec2Model ----------------------------
(***************************************************************************)
(* Model of the video-proctoring pipeline of the interview application.    *)
(*                                                                         *)
(*   - MultimodalLiveClient (lib/multimodalLiveClient.ts, kept here as     *)
(*     src/unnamed/part_002 lines 290-567): the frame queue, the cadence   *)
(*     gate, the remote analysis call and the violation parser.            *)
(*   - the edge rate limiter (src/middleware.ts).                          *)
(*   - the route handlers POST and GET of /api/gemini (kept here as        *)
(*     src/unnamed/part_000 lines 348-539).                                *)
(*                                                                         *)
(* JavaScript runs each handler to its next `await` without interruption,  *)
(* so an action of the model is one such run: the synchronous prefix of a  *)
(* call, or the continuation that runs when an awaited promise settles.    *)
(*                                                                         *)
(* Times are milliseconds (Date.now()).  Confidences, which the source     *)
(* writes as fractions (0.7, 0.9), are written here in hundredths, and so *)
(* are the temperature and topP of a generationConfig.                     *)
(***************************************************************************)
EXTENDS Integers, Sequences, FiniteSets, Bags, TLC

VARIABLES
    now,                \* the reading Date.now() returns
    \* ---- MultimodalLiveClient (browser) ----
    connected,          \* private connected
    lastAnalysisTime,   \* private lastAnalysisTime
    frameQueue,         \* private frameQueue: VideoFrame[]
    processingFrames,   \* private processingFrames
    pending,            \* analyzeFrame invocations suspended at an await
    connecting,         \* number of connect() invocations awaiting the GET
    emitted,            \* events emitted by the latest client operation
    settled,            \* how the promise that the latest client step
                        \*   continued has settled ("none": not in this step)
    senders,            \* sendVideoFrame invocations suspended at
                        \*   await this.processFrameQueue()
    stale,              \* history: how many of the connect() invocations
                        \*   awaiting the GET began before the latest disconnect()
    submitted,          \* history: number of sendVideoFrame calls so far
    calls,              \* history: the POSTs started, in order
    \* ---- edge rate limiter (server) ----
    ipRequestMap,       \* const ipRequestMap = new Map(...)
    response,           \* the response to the latest /api/ request
    nth,                \* history: per address, position of its latest
                        \*   request in the window opened by a fresh request
    span,               \* history: the observed one-minute span
    unswept,            \* history: the table and the latest response of a
                        \*   limiter that serves the same requests at the
                        \*   same times and never runs the sweep
    \* ---- violation parser on its own ----
    parser,             \* a reply text and what extractViolations made of it
    \* ---- route handlers of /api/gemini (server) ----
    route,              \* the request being handled and its response
    \* ---- React components (browser) ----
    provider,           \* LiveAPIProvider: its state and the clients it made
    proctor,            \* VideoProctor: its state and its capture interval
    proctoringConfig    \* the proctoring configurations a consumer built

clientVars  == <<connected, lastAnalysisTime, frameQueue, processingFrames,
                 pending, connecting, emitted, settled, senders, stale,
                 submitted, calls>>
limiterVars == <<ipRequestMap, response, nth, span, unswept>>
uiVars      == <<provider, proctor, proctoringConfig>>
vars        == <<now, clientVars, limiterVars, parser, route, uiVars>>

---------------------------------------------------------------------------
(* Bounds of the model                                                     *)

MaxFrames   == 3      \* sendVideoFrame calls in one behaviour
MaxTicks    == 4      \* clock advances in one client behaviour
MaxConnects == 1      \* connect() calls awaiting their check at one time
MaxAnon     == 2      \* requests without a client address in one window
MaxTextLen  == 6      \* characters of a text handed to the parser alone
MaxClients  == 2      \* clients a LiveAPIProvider makes in one behaviour
MaxStarts   == 1      \* startCamera calls awaiting the webcam at one time
MaxBuilds   == 4      \* configurations a consumer builds
MaxCaptures == 2      \* frames VideoProctor submits to one client

---------------------------------------------------------------------------
(* Program constants                                                       *)

analysisInterval    == 2000     \* private analysisInterval = 2000
confidenceThreshold == 70       \* private confidenceThreshold = 0.7
DefaultConfidence   == 90       \* confidence: 0.9 in extractViolations

\* Clock readings of the client model: one second apart, starting late
\* enough that the first frame passes the cadence gate as it does with a
\* real epoch time (lastAnalysisTime starts at 0).
ClientStep  == analysisInterval \div 2
StartTime   == 5 * analysisInterval
ClientTimes == { StartTime + k * ClientStep : k \in 0..MaxTicks }

Last(s) == s[Len(s)]
Front(s) == SubSeq(s, 1, Len(s) - 1)
Max(S) == CHOOSE x \in S : \A y \in S : y <= x

---------------------------------------------------------------------------
(* Inputs                                                                  *)

\* Characters of a model reply: "M" stands for the literal marker
\* PROCTORING_VIOLATION: (the regular expression matches it as a unit),
\* " " for a blank other than a line break, "\n" for a line break, and
\* "a", "b" for any other character.
Marker == "M"
Blank  == " "
Break  == "\n"
IsSpace(c) == c \in {Blank, Break}          \* the class \s

\* The data URL handed to sendVideoFrame: "," ends the mime prefix
FrameData == { <<"h", ",", "p">> }

\* Texts of the replies the client model receives
ReplyTexts ==
    { <<"a">>,                                              \* no marker
      <<Marker, Blank, "a">>,                               \* one violation
      <<Marker, Blank, "a", Break, Blank, Marker, Blank, "b">> }  \* two

\* A part of a reply without text, and a part that is null
NoText   == <<>>
NullPart == <<"null">>

\* Bodies response.json() resolves to: isNull tells whether the body is
\* null, hasParts whether candidates?.[0]?.content?.parts is there,
\* iterable whether it can be iterated, parts lists the text of each part
\* of candidates[0] (NoText for a part without text, NullPart for null).
Reply(ps)   == [isNull |-> FALSE, hasParts |-> TRUE, iterable |-> TRUE,
                parts |-> ps]
NoParts     == [isNull |-> FALSE, hasParts |-> FALSE, iterable |-> FALSE,
                parts |-> <<>>]
NullBody    == [isNull |-> TRUE, hasParts |-> FALSE, iterable |-> FALSE,
                parts |-> <<>>]
NotIterable == [isNull |-> FALSE, hasParts |-> TRUE, iterable |-> FALSE,
                parts |-> <<>>]
ReplyData ==
    { NoParts, NullBody, NotIterable, Reply(<<>>), Reply(<<NoText>>) }
      \cup { Reply(<<t>>) : t \in ReplyTexts }
      \cup { Reply(<<<<Marker, Blank, "a">>, <<Marker, Blank, "b">>>>),
             Reply(<<<<Marker, Blank, "a">>, NullPart,
                     <<Marker, Blank, "b">>>>) }

Configs == { "cfgHigh", "cfgLow" }

\* Texts for the parser on its own: every text of up to MaxTextLen characters
TextChars == { Marker, Blank, Break, "a", "b" }
Texts == UNION { [1..n -> TextChars] : n \in 0..MaxTextLen }

---------------------------------------------------------------------------
(* Violation parser: extractViolations                                     *)

\* String.prototype.trim on a captured group
RECURSIVE TrimLeft(_)
TrimLeft(s) ==
    IF Len(s) > 0 /\ IsSpace(s[1]) THEN TrimLeft(Tail(s)) ELSE s

RECURSIVE TrimRight(_)
TrimRight(s) ==
    IF Len(s) > 0 /\ IsSpace(s[Len(s)]) THEN TrimRight(Front(s)) ELSE s

Trim_none(s) == s
Trim(s) == TrimLeft(TrimRight(s))

\* Index of the first character at or after i that satisfies no \s
\* (Len(text) + 1 when there is none): where the greedy \s* stops.
RECURSIVE SkipSpace(_, _)
SkipSpace(text, i) ==
    IF i <= Len(text) /\ IsSpace(text[i]) THEN SkipSpace(text, i + 1) ELSE i

\* Index of the last character of the run of [^\n] that starts at i
RECURSIVE LineEnd(_, _)
LineEnd(text, i) ==
    IF i < Len(text) /\ text[i + 1] # Break THEN LineEnd(text, i + 1) ELSE i

\* Where the group ([^\n]+) starts for a marker at index m, 0 for no match.
\* \s* takes every blank and line break after the marker; if a character
\* other than a line break follows, the group starts there.  At the end of
\* the text the expression backtracks, giving blanks back one at a time,
\* until the group can start on a blank that is no line break.
GroupStart(text, m) ==
    LET k == SkipSpace(text, m + 1)
        back == { p \in (m + 1)..Len(text) : text[p] = Blank }
    IN  IF k <= Len(text) THEN k
        ELSE IF back # {} THEN Max(back)
        ELSE 0

\* new ViolationEvent for one match; timestamp is new Date() at time t
Violation(text, from, to, t) ==
    [ type       |-> Trim(SubSeq(text, from, to)),
      timestamp  |-> t,
      confidence |-> DefaultConfidence,
      details    |-> text ]

\* The loop while ((match = violationRegex.exec(text)) !== null), the
\* search resuming at index i (the expression's lastIndex + 1)
RECURSIVE ExecFrom(_, _, _)
ExecFrom(text, i, t) ==
    IF i > Len(text) THEN <<>>
    ELSE IF text[i] # Marker THEN ExecFrom(text, i + 1, t)
    ELSE LET g == GroupStart(text, i)
         IN  IF g = 0 THEN ExecFrom(text, i + 1, t)
             ELSE <<Violation(text, g, LineEnd(text, g), t)>>
                    \o ExecFrom(text, LineEnd(text, g) + 1, t)

extractViolations(text, t) == ExecFrom(text, 1, t)

---------------------------------------------------------------------------
(* MultimodalLiveClient: events                                            *)

Event(type, data) == [type |-> type, data |-> data]
NoData == [none |-> TRUE]

\* if (violation.confidence >= this.confidenceThreshold) emit(...)
PassesThreshold_inverted(v) == v.confidence < confidenceThreshold
PassesThreshold(v) == v.confidence >= confidenceThreshold

\* The inner loop of processViolations over the violations of one part
RECURSIVE EmitViolations(_)
EmitViolations(vs) ==
    IF vs = <<>> THEN <<>>
    ELSE (IF PassesThreshold(Head(vs))
            THEN <<Event("violation", Head(vs))>> ELSE <<>>)
           \o EmitViolations(Tail(vs))

\* The outer loop of processViolations over the parts of candidates[0]:
\* reading part.text of a null part throws, which ends the loop
RECURSIVE EmitParts(_, _)
EmitParts(parts, t) ==
    IF parts = <<>> \/ Head(parts) = NullPart THEN <<>>
    ELSE (IF Head(parts) # NoText
            THEN EmitViolations(extractViolations(Head(parts), t))
            ELSE <<>>)
           \o EmitParts(Tail(parts), t)

\* processViolations(response): the events it emits, in order
processViolations(data, t) ==
    IF ~data.isNull /\ data.hasParts /\ data.iterable
    THEN EmitParts(data.parts, t) ELSE <<>>

\* processViolations(response) throws a TypeError: response is null
\* (response.candidates), parts cannot be iterated (for ... of), or a part
\* is null (part.text)
Throws(data) ==
    \/ data.isNull
    \/ data.hasParts /\ ~data.iterable
    \/ data.hasParts /\ \E i \in DOMAIN data.parts : data.parts[i] = NullPart

\* No text has been parsed yet
Unparsed(text) == [text |-> text, parsed |-> FALSE, violations |-> <<>>]

\* processViolations on a reply whose only part carries parser.text:
\* extractViolations(part.text), then one emit per violation
ParseText ==
    /\ ~parser.parsed
    /\ parser' = [ parser EXCEPT
                     !.parsed     = TRUE,
                     !.violations = extractViolations(parser.text, now) ]
    /\ emitted' = processViolations(Reply(<<parser.text>>), now)
    /\ UNCHANGED <<now, senders, connected, lastAnalysisTime, frameQueue,
                   processingFrames, pending, connecting, settled, stale,
                   submitted, calls, limiterVars, route, uiVars>>

---------------------------------------------------------------------------
(* MultimodalLiveClient: frame queue and cadence gate                      *)

\* frameData.slice(frameData.indexOf(',') + 1)
RECURSIVE IndexOfComma(_, _)
IndexOfComma(d, i) ==
    IF i > Len(d) THEN 0
    ELSE IF d[i] = "," THEN i
    ELSE IndexOfComma(d, i + 1)

StripPrefix(d) == SubSeq(d, IndexOfComma(d, 1) + 1, Len(d))

\* The analyzeFrame invocations whose remote call is not over: the POST
\* has not settled, or its body is still being read
InFlight(p) == { c \in p : c.stage \in {"fetch", "json"} }

\* const frame: VideoFrame = {...}.  seq and during are history: the
\* position of the frame among all submissions, and the POST that was in
\* flight when it was submitted (0 for none).
NewFrame(d, t, n, p) ==
    [ imageData |-> StripPrefix(d),
      timestamp |-> t,
      metadata  |-> [width |-> 640, height |-> 480, quality |-> 80],
      seq       |-> n,
      during    |-> IF InFlight(p) = {} THEN 0
                    ELSE Max({ c.id : c \in InFlight(p) }) ]

\* this.frameQueue.push(frame)
Enqueue(q, frame) == Append(q, frame)

\* const frame = this.frameQueue.pop()
PopFrame_shift(q) == Head(q)
PopFrame(q) == Last(q)

\* this.frameQueue = []  (after the pop)
QueueAfterPop_keep(q) == q
QueueAfterPop(q) == <<>>

\* this.processingFrames = true  (before the await)
BusyWhileAnalyzing_unset == FALSE
BusyWhileAnalyzing == TRUE

\* shouldAnalyzeFrame(): the test; the caller stores now in lastAnalysisTime
shouldAnalyzeFrame_always(t, last) == TRUE
shouldAnalyzeFrame(t, last) == t - last >= analysisInterval

\* The part of the client that sendVideoFrame and processFrameQueue read
\* and write
QueueState ==
    [ connected        |-> connected,
      frameQueue       |-> frameQueue,
      processingFrames |-> processingFrames,
      lastAnalysisTime |-> lastAnalysisTime,
      pending          |-> pending,
      calls            |-> calls,
      submitted        |-> submitted,
      senders          |-> senders ]

\* analyzeFrame(frame) up to its first await: the POST is issued and the
\* invocation suspends.  calls records the POST: which frame it carries
\* (seq, during), its start time and how many frames had been submitted
\* by then (newest).
analyzeFrame(s, frame, t, n) ==
    [ s EXCEPT
        !.pending = @ \cup { [ id    |-> Len(s.calls) + 1,
                               frame |-> frame,
                               stage |-> "fetch" ] },
        !.calls   = Append(@, [ seq    |-> frame.seq,
                                during |-> frame.during,
                                start  |-> t,
                                newest |-> n ]) ]

\* processFrameQueue() run to its first await, or to its end when no
\* analysis starts; t is Date.now(), n the number of frames submitted.
RECURSIVE processFrameQueue(_, _, _)
processFrameQueue(s, t, n) ==
    IF s.processingFrames \/ Len(s.frameQueue) = 0 THEN s
    ELSE LET frame == PopFrame(s.frameQueue)
             rest  == QueueAfterPop(Front(s.frameQueue))
         IN  IF shouldAnalyzeFrame(t, s.lastAnalysisTime)
             THEN analyzeFrame(
                    [ s EXCEPT !.processingFrames = BusyWhileAnalyzing,
                               !.frameQueue       = rest,
                               !.lastAnalysisTime = t ],
                    frame, t, n)
             ELSE \* finally, reached without suspending
                  processFrameQueue(
                    [ s EXCEPT !.processingFrames = FALSE,
                               !.frameQueue       = rest ],
                    t, n)

\* The finally block of processFrameQueue, run when analyzeFrame returns
Finally_stuck(s, t, n) == s
Finally(s, t, n) ==
    LET f == [ s EXCEPT !.processingFrames = FALSE ]
    IN  IF Len(f.frameQueue) > 0 THEN processFrameQueue(f, t, n) ELSE f

\* await this.analyzeFrame(frame) is over: the invocation c is gone and
\* nothing refers to its frame any more
Returned_requeue(s, c) ==
    [ s EXCEPT !.pending = @ \ {c}, !.frameQueue = Append(@, c.frame) ]
Returned(s, c) == [ s EXCEPT !.pending = @ \ {c} ]

\* catch (error) { this.emit('error', error) } in analyzeFrame
FailureEvents_silent(error) == <<>>
FailureEvents(error) == <<Event("error", error)>>

\* The sendVideoFrame invocations suspended at await
\* this.processFrameQueue().  At most one of them waits for an analysis:
\* chain is the number of processFrameQueue invocations suspended between
\* that analysis and sendVideoFrame (0 when no analysis is awaited).  For
\* each of the others, whose chain has ended, ready holds the number of
\* processFrameQueue invocations that have yet to resume at their await of
\* the inner processFrameQueue() before sendVideoFrame itself resumes.
NoSenders == [chain |-> 0, ready |-> EmptyBag]

\* A chain has ended with d invocations of processFrameQueue to resume
Ended(sd, d) == [chain |-> 0, ready |-> sd.ready (+) SetToBag({d})]

\* A chain has resumed at the await of an inner processFrameQueue(), d
\* invocations being suspended before
Resumed(sd, d) ==
    [ sd EXCEPT !.ready = (@ (-) SetToBag({d})) (+) SetToBag({d - 1}) ]

\* A sendVideoFrame whose chain has ended has resumed and returned
Fulfilled(sd) == [ sd EXCEPT !.ready = @ (-) SetToBag({0}) ]

\* Writes a QueueState back
SetQueueState(s) ==
    /\ connected'        = s.connected
    /\ frameQueue'       = s.frameQueue
    /\ processingFrames' = s.processingFrames
    /\ lastAnalysisTime' = s.lastAnalysisTime
    /\ pending'          = s.pending
    /\ calls'            = s.calls
    /\ submitted'        = s.submitted
    /\ senders'          = s.senders

---------------------------------------------------------------------------
(* MultimodalLiveClient: operations                                        *)

\* sendVideoFrame pushes the frame whatever this.connected is: the method
\* does not read the field
Accepts_connected(conn) == conn
Accepts(conn) == TRUE

\* sendVideoFrame(frameData) of a client in state s at time t, to its
\* first await.  While processingFrames is set it returns after the push.
\* Otherwise it suspends at await this.processFrameQueue(), whether
\* processFrameQueue has started an analysis or has returned.
sendVideoFrame(s, d, t) ==
    LET n     == s.submitted + 1
        frame == NewFrame(d, t, n, s.pending)
        s1    == IF Accepts(s.connected)
                 THEN [ s EXCEPT !.frameQueue = Enqueue(@, frame) ]
                 ELSE s
        s2    == IF ~s1.processingFrames
                 THEN processFrameQueue(s1, t, n) ELSE s1
    IN  [ s2 EXCEPT
            !.submitted = n,
            !.senders   = IF s1.processingFrames THEN @
                          ELSE IF s2.calls # s.calls
                          THEN [ @ EXCEPT !.chain = 1 ]
                          ELSE Ended(@, 0) ]

\* sendVideoFrame(frameData) is called.  Its promise is fulfilled at the
\* return when processingFrames was set, and pending otherwise.
SendVideoFrame(d) ==
    /\ submitted < MaxFrames
    /\ SetQueueState(sendVideoFrame(QueueState, d, now))
    /\ settled' = IF processingFrames THEN "resolved" ELSE "none"
    /\ emitted' = <<>>
    /\ UNCHANGED <<now, connecting, stale, limiterVars, parser, route,
                   uiVars>>

\* The invocation c of analyzeFrame moved to another await
AtStage(p, c, stage) == (p \ {c}) \cup { [c EXCEPT !.stage = stage] }

\* The POST of analyzeFrame has settled: on a rejection or a status that
\* is not OK the catch block emits 'error' and analyzeFrame returns; an OK
\* response suspends analyzeFrame again, at await response.json()
FetchResult(outcome) ==
    IF outcome = "ok"
    THEN [ stage |-> "json", emitted |-> <<>> ]
    ELSE [ stage |-> "returned", emitted |-> FailureEvents(outcome) ]

\* response.json() has settled: a body that is no JSON is caught like a
\* failed POST and analyzeFrame returns; otherwise processViolations(data)
\* runs to its end or to the part where it throws, and analyzeFrame
\* suspends at the await of its promise
JsonStage(parsed, data) ==
    IF ~parsed THEN "returned"
    ELSE IF Throws(data) THEN "thrown" ELSE "violations"

\* What the step emits in which response.json() has settled at time t: the
\* 'error' of the catch block, or the violations of processViolations(data)
JsonEvents(parsed, data, t) ==
    IF ~parsed THEN FailureEvents("json") ELSE processViolations(data, t)

\* await this.processViolations(data) has settled: analyzeFrame returns,
\* after the catch block has emitted 'error' if processViolations threw
ViolationsResult(stage) ==
    [ stage   |-> "returned",
      emitted |-> IF stage = "thrown" THEN FailureEvents("TypeError")
                  ELSE <<>> ]

\* await this.analyzeFrame(frame) has settled for the invocation c of a
\* client in state s at time t: processFrameQueue resumes and its finally
\* block runs.  It ends suspended again: behind an analysis the inner
\* processFrameQueue() has started, or at the await of an inner
\* processFrameQueue() that has returned.  With nothing queued it returns.
resumeFrameQueue(s, c, t) ==
    LET r == Finally(Returned(s, c), t, s.submitted)
    IN  [ r EXCEPT
            !.senders = IF r.calls # s.calls
                        THEN [ @ EXCEPT !.chain = @ + 1 ]
                        ELSE IF s.frameQueue # <<>>
                        THEN Ended(@, @.chain)
                        ELSE Ended(@, @.chain - 1) ]

\* The POST of analyzeFrame settles, which leaves processFrameQueue to
\* resume at its await in a later turn
FetchSettle(c, outcome) ==
    /\ c \in pending
    /\ c.stage = "fetch"
    /\ pending' = AtStage(pending, c, FetchResult(outcome).stage)
    /\ emitted' = FetchResult(outcome).emitted
    /\ settled' = "none"
    /\ UNCHANGED <<now, senders, connected, lastAnalysisTime, frameQueue,
                   processingFrames, connecting, stale, submitted, calls,
                   limiterVars, parser, route, uiVars>>

\* response.json() settles
JsonSettle(c, parsed, data) ==
    /\ c \in pending
    /\ c.stage = "json"
    /\ pending' = AtStage(pending, c, JsonStage(parsed, data))
    /\ emitted' = JsonEvents(parsed, data, now)
    /\ settled' = "none"
    /\ UNCHANGED <<now, senders, connected, lastAnalysisTime, frameQueue,
                   processingFrames, connecting, stale, submitted, calls,
                   limiterVars, parser, route, uiVars>>

\* await this.processViolations(data) settles
ViolationsSettle(c) ==
    /\ c \in pending
    /\ c.stage \in {"violations", "thrown"}
    /\ pending' = AtStage(pending, c, ViolationsResult(c.stage).stage)
    /\ emitted' = ViolationsResult(c.stage).emitted
    /\ settled' = "none"
    /\ UNCHANGED <<now, senders, connected, lastAnalysisTime, frameQueue,
                   processingFrames, connecting, stale, submitted, calls,
                   limiterVars, parser, route, uiVars>>

\* await this.analyzeFrame(frame) settles
AnalyzeSettle(c) ==
    /\ c \in pending
    /\ c.stage = "returned"
    /\ SetQueueState(resumeFrameQueue(QueueState, c, now))
    /\ settled' = "none"
    /\ emitted' = <<>>
    /\ UNCHANGED <<now, connecting, stale, limiterVars, parser, route,
                   uiVars>>

\* await this.processFrameQueue() in a finally block settles: the
\* invocation of processFrameQueue returns, d of them being suspended
QueueSettle(d) ==
    /\ d >= 1
    /\ BagIn(d, senders.ready)
    /\ senders' = Resumed(senders, d)
    /\ settled' = "none"
    /\ emitted' = <<>>
    /\ UNCHANGED <<now, connected, lastAnalysisTime, frameQueue,
                   processingFrames, pending, connecting, stale, submitted,
                   calls, limiterVars, parser, route, uiVars>>

\* await this.processFrameQueue() in sendVideoFrame settles: sendVideoFrame
\* returns, which fulfils its promise
SendSettle ==
    /\ BagIn(0, senders.ready)
    /\ senders' = Fulfilled(senders)
    /\ settled' = "resolved"
    /\ emitted' = <<>>
    /\ UNCHANGED <<now, connected, lastAnalysisTime, frameQueue,
                   processingFrames, pending, connecting, stale, submitted,
                   calls, limiterVars, parser, route, uiVars>>

\* connect(), to its await of the GET /api/gemini
Connect ==
    /\ connecting < MaxConnects
    /\ connecting' = connecting + 1
    /\ emitted' = <<>>
    /\ settled' = "none"
    /\ UNCHANGED <<now, senders, connected, lastAnalysisTime, frameQueue,
                   processingFrames, pending, stale, submitted, calls,
                   limiterVars, parser, route, uiVars>>

\* this.connected after the GET has settled: set to true behind the
\* if (!response.ok) throw, left alone by the catch block
ConnectedAfter_early(outcome, conn) == TRUE
ConnectedAfter(outcome, conn) == IF outcome = "ok" THEN TRUE ELSE conn

\* this.emit('open') at the end of the try block, this.emit('error', error)
\* in the catch block
ConnectEvents(outcome) ==
    IF outcome = "ok" THEN <<Event("open", NoData)>>
    ELSE <<Event("error", outcome)>>

\* The GET of a connect() settles; the catch block throws the error again.
\* old tells whether the invocation began before the latest disconnect().
ConnectSettle(outcome, old) ==
    /\ IF old THEN stale > 0 ELSE connecting > stale
    /\ connecting' = connecting - 1
    /\ stale' = IF old THEN stale - 1 ELSE stale
    /\ connected' = ConnectedAfter(outcome, connected)
    /\ emitted' = ConnectEvents(outcome)
    /\ settled' = IF outcome = "ok" THEN "resolved" ELSE "rejected"
    /\ UNCHANGED <<now, senders, lastAnalysisTime, frameQueue, processingFrames,
                   pending, submitted, calls, limiterVars, parser, route,
                   uiVars>>

\* disconnect()
Disconnect ==
    /\ connected' = FALSE
    /\ emitted' = <<Event("close", NoData)>>
    /\ settled' = "none"
    /\ stale' = connecting
    /\ UNCHANGED <<now, senders, lastAnalysisTime, frameQueue, processingFrames,
                   pending, connecting, submitted, calls, limiterVars, parser,
                   route, uiVars>>

\* this.emit('config', config): sendConfig does not read this.connected
ConfigEvents_gated(config, conn) ==
    IF conn THEN <<Event("config", config)>> ELSE <<>>
ConfigEvents_none(config, conn) == <<>>
ConfigEvents(config, conn) == <<Event("config", config)>>

\* sendConfig(config)
SendConfig(config) ==
    /\ emitted' = ConfigEvents(config, connected)
    /\ settled' = "none"
    /\ UNCHANGED <<now, senders, connected, lastAnalysisTime, frameQueue,
                   processingFrames, pending, connecting, stale, submitted,
                   calls, limiterVars, parser, route, uiVars>>

\* Time passes in the browser
ClientTick ==
    /\ now + ClientStep \in ClientTimes
    /\ now' = now + ClientStep
    /\ UNCHANGED <<clientVars, limiterVars, parser, route, uiVars>>

---------------------------------------------------------------------------
(* Edge rate limiter: middleware.ts                                        *)

\* const rateLimit = { windowMs: 60 * 1000, max: 100 }
rateLimit == [windowMs |-> 60 * 1000, max |-> 100]

\* request.ip of the requests: one client address, and a request without
\* a client address
NoIp == "undefined"
Ips  == { "10.0.0.1", NoIp }

\* const ip = request.ip ?? '127.0.0.1'
KeyOf_shared(ip) == "127.0.0.1"
KeyOf(ip) == IF ip = NoIp THEN "127.0.0.1" ELSE ip
Keys == { KeyOf(ip) : ip \in Ips }

\* Clock readings of the limiter model: the start of a window, a moment
\* inside it, its reset time and a moment after it.
LimiterTimes ==
    { StartTime, StartTime + 500, StartTime + rateLimit.windowMs,
      StartTime + rateLimit.windowMs + 500 }

\* Math.ceil(a / b) for a >= 0, b > 0
Ceil_floor(a, b) == a \div b
Ceil(a, b) == (a + b - 1) \div b

\* if (now > data.resetTime): the window of an entry has passed
Expired_swapped(t, data) == data.resetTime > t
Expired(t, data) == t > data.resetTime

\* else if (data.count >= rateLimit.max)
LimitReached_above(data) == data.count > rateLimit.max
LimitReached(data) == data.count >= rateLimit.max

\* { count: 1, resetTime: now + rateLimit.windowMs }
FreshEntry(t) == [count |-> 1, resetTime |-> t + rateLimit.windowMs]

\* ipRequestMap.set(key, entry)
MapSet(map, key, entry) ==
    [ k \in (DOMAIN map) \cup {key} |-> IF k = key THEN entry ELSE map[k] ]

\* The table after the rate-limiting branch of middleware has run for a
\* request keyed key at time t (unchanged when the request is rejected)
TableAfter_extending(map, key, t) ==
    IF key \notin DOMAIN map THEN MapSet(map, key, FreshEntry(t))
    ELSE IF Expired(t, map[key]) THEN MapSet(map, key, FreshEntry(t))
    ELSE IF LimitReached(map[key])
    THEN MapSet(map, key,
                [map[key] EXCEPT !.resetTime = t + rateLimit.windowMs])
    ELSE MapSet(map, key, [map[key] EXCEPT !.count = @ + 1])
TableAfter(map, key, t) ==
    IF key \notin DOMAIN map THEN MapSet(map, key, FreshEntry(t))
    ELSE IF Expired(t, map[key]) THEN MapSet(map, key, FreshEntry(t))
    ELSE IF LimitReached(map[key]) THEN map
    ELSE MapSet(map, key, [map[key] EXCEPT !.count = @ + 1])

\* Whether that branch returns the 429 response
Rejects_never(map, key, t) == FALSE
Rejects(map, key, t) ==
    /\ key \in DOMAIN map
    /\ ~Expired(t, map[key])
    /\ LimitReached(map[key])

\* What the claims need of a response.  rateHeaders tells whether the
\* X-RateLimit-* headers are set, and limit, remaining, reset are their
\* values; retryAfter is the retryAfter of the body and retryAfterHeader
\* the Retry-After header.  The security headers and Server-Timing do not
\* depend on the table and are left out.
Response429(map, key, t) ==
    [ status           |-> 429,
      api              |-> TRUE,
      key              |-> key,
      time             |-> t,
      rateHeaders      |-> FALSE,
      limit            |-> 0,
      remaining        |-> 0,
      reset            |-> 0,
      retryAfter       |-> Ceil(map[key].resetTime - t, 1000),
      retryAfterHeader |-> Ceil(map[key].resetTime - t, 1000) ]

\* NextResponse.next() with the rate limit headers, read from the table
\* after the update
ResponseNext(after, key, t) ==
    [ status           |-> 200,
      api              |-> TRUE,
      key              |-> key,
      time             |-> t,
      rateHeaders      |-> TRUE,
      limit            |-> rateLimit.max,
      remaining        |-> rateLimit.max - after[key].count,
      reset            |-> Ceil(after[key].resetTime, 1000),
      retryAfter       |-> 0,
      retryAfterHeader |-> 0 ]

\* NextResponse.next() for a path outside /api/
ResponsePage(key, t) ==
    [ status           |-> 200,
      api              |-> FALSE,
      key              |-> key,
      time             |-> t,
      rateHeaders      |-> FALSE,
      limit            |-> 0,
      remaining        |-> 0,
      reset            |-> 0,
      retryAfter       |-> 0,
      retryAfterHeader |-> 0 ]

\* No request has been handled yet
NoResponse ==
    [ out  |-> [ResponsePage("", 0) EXCEPT !.status = 0],
      pos  |-> 0,
      prev |-> [has |-> FALSE, live |-> FALSE, count |-> 0] ]

\* No span is observed yet
NoSpan == [key |-> "", start |-> 0, count |-> 0]

\* The entry a request keyed key finds in the table map at time t
Found(map, key, t) ==
    LET has == key \in DOMAIN map
    IN  [ has   |-> has,
          live  |-> has /\ ~(t > map[key].resetTime),
          count |-> IF has THEN map[key].count ELSE 0 ]

\* The response middleware returns for a request keyed key at time t that
\* finds the table map
Returns(map, key, t, api) ==
    IF ~api THEN ResponsePage(key, t)
    ELSE IF Rejects(map, key, t) THEN Response429(map, key, t)
    ELSE ResponseNext(TableAfter(map, key, t), key, t)

\* The limiter without the sweep before any request
NoUnswept ==
    [ map |-> <<>>, out |-> NoResponse.out, prev |-> NoResponse.prev ]

\* The limiter without the sweep after the same request
UnsweptAfter(u, key, t, api) ==
    [ map  |-> IF api THEN TableAfter(u.map, key, t) ELSE u.map,
      out  |-> Returns(u.map, key, t, api),
      prev |-> Found(u.map, key, t) ]

\* middleware(request), as one step: the function does not suspend.
\* api tells whether the path starts with /api/.  response.out is the
\* response returned.
\* History: response.pos is the position of the request among the requests
\* its address has made since a request that found no live entry (counted
\* up to max + 1), response.prev the entry the request found.  watch makes
\* this request the start of the observed span; span.count counts the
\* requests of span.key admitted at times t with
\* span.start <= t < span.start + windowMs.
Middleware(ip, api, watch) ==
    LET key   == KeyOf(ip)
        has   == key \in DOMAIN ipRequestMap
        live  == has /\ ~(now > ipRequestMap[key].resetTime)
        pos   == IF ~live THEN 1
                 ELSE IF nth[key] > rateLimit.max THEN nth[key]
                 ELSE nth[key] + 1
        prev  == [ has   |-> has,
                   live  |-> live,
                   count |-> IF has THEN ipRequestMap[key].count ELSE 0 ]
        after == TableAfter(ipRequestMap, key, now)
        rej   == Rejects(ipRequestMap, key, now)
        sp    == IF watch THEN [key |-> key, start |-> now, count |-> 0]
                 ELSE span
        counted == /\ ~rej
                   /\ sp.key = key
                   /\ sp.start <= now
                   /\ now < sp.start + rateLimit.windowMs
    IN  /\ watch => (span = NoSpan /\ api)
        /\ IF api
           THEN /\ ipRequestMap' = after
                /\ nth' = [nth EXCEPT ![key] = pos]
                /\ response' =
                     [ out  |-> IF rej
                                THEN Response429(ipRequestMap, key, now)
                                ELSE ResponseNext(after, key, now),
                       pos  |-> pos,
                       prev |-> prev ]
                /\ span' = IF counted THEN [sp EXCEPT !.count = @ + 1]
                           ELSE sp
                /\ unswept' = UnsweptAfter(unswept, key, now, TRUE)
           ELSE /\ response' = [ out  |-> ResponsePage(key, now),
                                 pos  |-> 0,
                                 prev |-> prev ]
                /\ unswept' = UnsweptAfter(unswept, key, now, FALSE)
                /\ UNCHANGED <<ipRequestMap, nth, span>>
        /\ UNCHANGED <<now, clientVars, parser, route, uiVars>>

\* The setInterval callback: delete the entries whose window has passed.
\* The position history of a deleted entry is cleared with it.
SweepExpired_swapped(t, data) == data.resetTime > t
SweepExpired(t, data) == t > data.resetTime

Sweep ==
    LET keep == { k \in DOMAIN ipRequestMap :
                    ~SweepExpired(now, ipRequestMap[k]) }
    IN  /\ ipRequestMap' = [ k \in keep |-> ipRequestMap[k] ]
        /\ nth' = [ k \in Keys |-> IF k \in DOMAIN ipRequestMap /\ k \notin keep
                                   THEN 0 ELSE nth[k] ]
        /\ UNCHANGED <<now, response, span, unswept, clientVars, parser,
                       route, uiVars>>

\* Time passes on the server
LimiterTick ==
    /\ \E t \in LimiterTimes : t > now /\ now' = t
    /\ UNCHANGED <<clientVars, limiterVars, parser, route, uiVars>>

---------------------------------------------------------------------------
(* Route handlers of /api/gemini: POST and GET (app/api/gemini/route.ts,   *)
(* kept as src/unnamed/part_000 lines 348-539)                             *)

\* process.env.GEMINI_API_KEY: unset, empty, blank, or a key
EnvKeys ==
    { [set |-> FALSE, value |-> <<>>],
      [set |-> TRUE,  value |-> <<>>],
      [set |-> TRUE,  value |-> <<Blank>>],
      [set |-> TRUE,  value |-> <<"k">>] }

\* validateApiKey(): process.env.GEMINI_API_KEY?.trim(), and the throw when
\* the result is undefined or empty (ok = FALSE)
validateApiKey_untrimmed(env) ==
    [ ok |-> env.set /\ env.value # <<>>, apiKey |-> env.value ]
validateApiKey(env) ==
    [ ok |-> env.set /\ Trim(env.value) # <<>>, apiKey |-> Trim(env.value) ]

\* Generation parameters a caller puts into the body it posts, if any
\* (temperature and topP in hundredths)
NoGeneration ==
    [ given |-> FALSE, temperature |-> 0, topP |-> 0, topK |-> 0,
      maxOutputTokens |-> 0 ]
CallerGeneration ==
    [ given |-> TRUE, temperature |-> 90, topP |-> 50, topK |-> 1,
      maxOutputTokens |-> 4096 ]

\* What await request.json() gives: json tells whether the body parses,
\* null whether it parses to null; contents is rawBody.contents
\* ("undefined" for a value without that property: an object that lacks
\* it, a number, a string, a boolean); safety whether the caller supplied
\* safetySettings
NoBody ==
    [ json |-> FALSE, null |-> FALSE, contents |-> "",
      generationConfig |-> NoGeneration, safety |-> FALSE ]
NullInbound == [ NoBody EXCEPT !.json = TRUE, !.null = TRUE ]
Bodies ==
    { NoBody, NullInbound } \cup
    [ json : {TRUE}, null : {FALSE}, contents : {"c1", "c2", "undefined"},
      generationConfig : {NoGeneration, CallerGeneration},
      safety : BOOLEAN ]

\* generationConfig: { temperature: 0.1, topP: 1, topK: 32,
\* maxOutputTokens: 256 } of requestData
OutboundGeneration_caller(rawBody) ==
    IF rawBody.generationConfig.given
    THEN [ k \in {"temperature", "topP", "topK", "maxOutputTokens"} |->
             rawBody.generationConfig[k] ]
    ELSE [ temperature |-> 10, topP |-> 100, topK |-> 32,
           maxOutputTokens |-> 256 ]
OutboundGeneration(rawBody) ==
    [ temperature |-> 10, topP |-> 100, topK |-> 32, maxOutputTokens |-> 256 ]

\* The request POST sends to GEMINI_API_URL: requestData and the headers
OutboundPost(rawBody, apiKey) ==
    [ method           |-> "POST",
      url              |-> "GEMINI_API_URL",
      authorization    |-> apiKey,
      contents         |-> rawBody.contents,
      generationConfig |-> OutboundGeneration(rawBody),
      safetySettings   |->
        <<[ category  |-> "HARM_CATEGORY_DANGEROUS_CONTENT",
            threshold |-> "BLOCK_LOW_AND_ABOVE" ]>> ]

\* The request GET sends to the model list of the remote service
OutboundGet(apiKey) ==
    [ method           |-> "GET",
      url              |-> "v1/models",
      authorization    |-> apiKey,
      contents         |-> "",
      generationConfig |-> NoGeneration,
      safetySettings   |-> <<>> ]

\* Statuses of a remote response that is not OK
RemoteStatuses == { 400, 429, 500, 503 }

\* Bodies of a remote response that is not OK, as response.text() reads
\* them: no JSON, or JSON with an error field, a message field or neither
ErrorTexts ==
    { [json |-> FALSE, error |-> "", message |-> "", text |-> "plain"],
      [json |-> TRUE, error |-> "quota", message |-> "", text |-> "{e}"],
      [json |-> TRUE, error |-> "", message |-> "slow down", text |-> "{m}"],
      [json |-> TRUE, error |-> "", message |-> "", text |-> "{}"] }

\* errorJson.error || errorJson.message || errorText, errorText when
\* JSON.parse throws
ErrorMessage(t) ==
    IF t.json /\ t.error # "" THEN t.error
    ELSE IF t.json /\ t.message # "" THEN t.message
    ELSE t.text

\* NextResponse.json(body, { status }): keys are the fields of the body,
\* headers the names of the headers the handler sets
RouteResponse(status, keys, error, message) ==
    [ status |-> status, keys |-> keys, error |-> error, message |-> message,
      headers |-> {} ]

\* No response yet
NoRouteResponse == RouteResponse(0, {}, "", "")

\* errorResponse(error, status) for the three-field bodies of POST
errorResponse(error, message, status) ==
    RouteResponse(status, {"error", "message", "details"}, error, message)

\* The status of the response to a remote answer that is not OK:
\* errorResponse({...}, response.status)
FailureStatus_fixed(remoteStatus) == 500
FailureStatus(remoteStatus) == remoteStatus

\* What a try block of a handler throws, or a promise rejects with: an
\* Error with a message, or a value that is no Error
Thrown(isError, message) == [isError |-> isError, message |-> message]

\* The Error validateApiKey throws, the SyntaxError of a body that is no
\* JSON, and what the remote call rejects with
NotConfigured == Thrown(TRUE, "GEMINI_API_KEY is not configured")
NotJson       == Thrown(TRUE, "Unexpected token")
\* What reading a body rejects with: the SyntaxError of JSON.parse, whose
\* message quotes the start of the body, or the TypeError of a connection
\* that ends while the body is read
Terminated == Thrown(TRUE, "terminated")
\* The TypeError of rawBody.contents for a body that parses to null
NullContents ==
    Thrown(TRUE, "Cannot read properties of null (reading 'contents')")
BodyRejections ==
    { NotJson, Terminated,
      Thrown(TRUE,
             "Unexpected token 'A', \"API key expired\" is not valid JSON") }

Rejections ==
    { Thrown(TRUE, "fetch failed"),
      Thrown(TRUE, "API key not valid. Please pass a valid API key."),
      Thrown(FALSE, "boom") }

\* The characters of the messages of the model
Chars(message) ==
    CASE message = "GEMINI_API_KEY is not configured" ->
           <<"G", "E", "M", "I", "N", "I", "_", "A", "P", "I", "_", "K",
             "E", "Y", " ", "i", "s", " ", "n", "o", "t", " ", "c", "o",
             "n", "f", "i", "g", "u", "r", "e", "d">>
      [] message = "API key not valid. Please pass a valid API key." ->
           <<"A", "P", "I", " ", "k", "e", "y", " ", "n", "o", "t", " ",
             "v", "a", "l", "i", "d", ".", " ", "P", "l", "e", "a", "s",
             "e", " ", "p", "a", "s", "s", " ", "a", " ", "v", "a", "l",
             "i", "d", " ", "A", "P", "I", " ", "k", "e", "y", ".">>
      [] message = "Unexpected token" ->
           <<"U", "n", "e", "x", "p", "e", "c", "t", "e", "d", " ", "t",
             "o", "k", "e", "n">>
      [] message = "fetch failed" ->
           <<"f", "e", "t", "c", "h", " ", "f", "a", "i", "l", "e", "d">>
      [] message = "Gemini API health check failed" ->
           <<"G", "e", "m", "i", "n", "i", " ", "A", "P", "I", " ", "h",
             "e", "a", "l", "t", "h", " ", "c", "h", "e", "c", "k", " ",
             "f", "a", "i", "l", "e", "d">>
      [] message = "boom" ->
           <<"b", "o", "o", "m">>
      [] message = "terminated" ->
           <<"t", "e", "r", "m", "i", "n", "a", "t", "e", "d">>
      [] message = "Cannot read properties of null (reading 'contents')" ->
           <<"C", "a", "n", "n", "o", "t", " ", "r", "e", "a", "d", " ",
             "p", "r", "o", "p", "e", "r", "t", "i", "e", "s", " ", "o",
             "f", " ", "n", "u", "l", "l", " ", "(", "r", "e", "a", "d",
             "i", "n", "g", " ", "'", "c", "o", "n", "t", "e", "n", "t",
             "s", "'", ")">>
      [] message =
           "Unexpected token 'A', \"API key expired\" is not valid JSON" ->
           <<"U", "n", "e", "x", "p", "e", "c", "t", "e", "d", " ", "t",
             "o", "k", "e", "n", " ", "'", "A", "'", ",", " ", "\"", "A",
             "P", "I", " ", "k", "e", "y", " ", "e", "x", "p", "i", "r",
             "e", "d", "\"", " ", "i", "s", " ", "n", "o", "t", " ", "v",
             "a", "l", "i", "d", " ", "J", "S", "O", "N">>

\* String.prototype.includes: sub occurs in s as a run of characters
Includes(s, sub) ==
    \E i \in 1..(Len(s) - Len(sub) + 1) :
        SubSeq(s, i, i + Len(sub) - 1) = sub

\* The catch block of POST: for an Error 'Configuration Error' when
\* error.message.includes('API key') and 'API Error' with the message
\* otherwise, 'Unknown Error' for a value that is no Error; all with
\* status 500
PostCatch(error) ==
    IF error.isError
    THEN IF Includes(Chars(error.message), <<"A", "P", "I", " ", "k", "e", "y">>)
         THEN errorResponse("Configuration Error",
                            "API key is not properly configured", 500)
         ELSE errorResponse("API Error", error.message, 500)
    ELSE errorResponse("Unknown Error", "An unexpected error occurred", 500)

\* The catch block of GET: status 503, body { error, message } with
\* error instanceof Error ? error.message : 'Unknown error'
GetCatch(error) ==
    RouteResponse(503, {"error", "message"}, "Health Check Failed",
                  IF error.isError THEN error.message ELSE "Unknown error")

\* new NextResponse(null, { status: 200, headers }) for request.method
\* 'OPTIONS': no body, the three Access-Control headers
CorsResponse ==
    [ RouteResponse(200, {}, "", "") EXCEPT
        !.headers = { "Access-Control-Allow-Origin",
                      "Access-Control-Allow-Methods",
                      "Access-Control-Allow-Headers" } ]

\* NextResponse.json(data, { headers: responseHeaders, status: 200 })
DataResponse ==
    [ RouteResponse(200, {"data"}, "", "") EXCEPT
        !.headers = { "Server-Timing", "X-Response-Time", "Cache-Control" } ]

\* No request is being handled.  op is the handler, method the
\* request.method it sees, env and inbound the credential and the body of
\* the request, outbound the requests made to the remote service on its
\* behalf, remote the status of the remote answer (0 for none), errorText
\* what await response.text() gave (none, or one text), res the response.
IdleRoute ==
    [ stage    |-> "idle",
      op       |-> "none",
      method   |-> "none",
      env      |-> [set |-> FALSE, value |-> <<>>],
      inbound  |-> NoBody,
      outbound |-> <<>>,
      remote   |-> 0,
      errorText |-> <<>>,
      res      |-> NoRouteResponse ]

\* The handler returns res
Respond(r, res) == [ r EXCEPT !.stage = "idle", !.res = res ]

\* request.method of the requests handed to POST
Methods == { "POST", "OPTIONS" }

\* POST(request), to its first await: the answer to an OPTIONS request,
\* validateApiKey, then the handler suspends at await request.json()
PostStart(method, env, rawBody) ==
    /\ route.stage = "idle"
    /\ LET r == [ IdleRoute EXCEPT !.op = "POST", !.method = method,
                                   !.env = env, !.inbound = rawBody ]
       IN  route' =
             IF method = "OPTIONS" THEN Respond(r, CorsResponse)
             ELSE IF ~validateApiKey(env).ok
             THEN Respond(r, PostCatch(NotConfigured))
             ELSE [ r EXCEPT !.stage = "body" ]
    /\ UNCHANGED <<now, clientVars, limiterVars, parser, uiVars>>

\* await request.json() settles: the body is no JSON, the promise rejects
\* with error and the catch block answers; or the body parses to null,
\* rawBody.contents throws and the catch block answers; or requestData is
\* built from the body and fetch(GEMINI_API_URL, ...) is called
PostBodySettle(error) ==
    /\ route.op = "POST"
    /\ route.stage = "body"
    /\ route' =
         IF ~route.inbound.json THEN Respond(route, PostCatch(error))
         ELSE IF route.inbound.null
         THEN Respond(route, PostCatch(NullContents))
         ELSE [ route EXCEPT
                  !.stage = "fetch",
                  !.outbound = <<OutboundPost(route.inbound,
                                              validateApiKey(route.env).apiKey)>> ]
    /\ UNCHANGED <<now, clientVars, limiterVars, parser, uiVars>>

\* The remote call of POST settles: rejected with error, OK, or with a
\* status that is not OK (then the handler awaits response.text())
PostFetchSettle(outcome, status, error) ==
    /\ route.op = "POST"
    /\ route.stage = "fetch"
    /\ route' =
         IF outcome = "reject" THEN Respond(route, PostCatch(error))
         ELSE IF outcome = "ok"
         THEN [ route EXCEPT !.stage = "json", !.remote = 200 ]
         ELSE [ route EXCEPT !.stage = "text", !.remote = status ]
    /\ UNCHANGED <<now, clientVars, limiterVars, parser, uiVars>>

\* await response.text() of a remote answer that is not OK settles: it
\* gives t and the answer carries the remote status, or it rejects with
\* error and the catch block answers
PostTextSettle(read, t, error) ==
    /\ route.stage = "text"
    /\ route' =
         IF read
         THEN Respond([ route EXCEPT !.errorText = <<t>> ],
                      errorResponse("Gemini API error", ErrorMessage(t),
                                    FailureStatus(route.remote)))
         ELSE Respond(route, PostCatch(error))
    /\ UNCHANGED <<now, clientVars, limiterVars, parser, uiVars>>

\* await response.json() of an OK remote answer settles: the data are
\* returned with status 200, or the promise rejects with error and the
\* catch block answers
PostJsonSettle(parsed, error) ==
    /\ route.stage = "json"
    /\ route' =
         IF parsed THEN Respond(route, DataResponse)
         ELSE Respond(route, PostCatch(error))
    /\ UNCHANGED <<now, clientVars, limiterVars, parser, uiVars>>

\* GET(), to its await of the remote call
GetStart(env) ==
    /\ route.stage = "idle"
    /\ LET key == validateApiKey(env)
           r   == [ IdleRoute EXCEPT !.op = "GET", !.method = "GET",
                                     !.env = env ]
       IN  route' =
             IF ~key.ok
             THEN Respond(r, GetCatch(NotConfigured))
             ELSE [ r EXCEPT !.stage = "fetch",
                             !.outbound = <<OutboundGet(key.apiKey)>> ]
    /\ UNCHANGED <<now, clientVars, limiterVars, parser, uiVars>>

\* The remote call of GET settles
GetFetchSettle(outcome, status, error) ==
    /\ route.op = "GET"
    /\ route.stage = "fetch"
    /\ route' =
         IF outcome = "reject"
         THEN Respond(route, GetCatch(error))
         ELSE IF outcome = "ok"
         THEN Respond([ route EXCEPT !.remote = 200 ],
                      RouteResponse(200, {"status"}, "", ""))
         ELSE Respond([ route EXCEPT !.remote = status ],
                      GetCatch(Thrown(TRUE, "Gemini API health check failed")))
    /\ UNCHANGED <<now, clientVars, limiterVars, parser, uiVars>>

---------------------------------------------------------------------------
(* LiveAPIProvider (lib/contexts/LiveAPIContext.tsx, kept as               *)
(* src/unnamed/part_003) and VideoProctor (kept as src/unnamed/part_000    *)
(* lines 1-201), rendered by React 18                                      *)
(*                                                                         *)
(* A callback, a continuation, a commit of React and the run of the        *)
(* effects a commit has scheduled are steps of their own.  A state setter  *)
(* changes the state of a component at once; the context value and the     *)
(* functions of a component are those of the latest commit and close over  *)
(* the state of that commit.  A commit takes up every state update made    *)
(* so far, and React runs the effects of a commit before it renders        *)
(* again.  State that is only displayed (violations, lastViolation,        *)
(* isAnalyzing, permissionDenied, the stream of useWebcam) is left out.    *)

\* new MultimodalLiveClient(apiUrl, apiKey) with the provider's listeners
\* attached.  connecting counts its connect() invocations awaiting the
\* GET; resuming lists, for the invocations whose GET has settled, the
\* outcome with which connect of the context has yet to resume.
NewClient ==
    [ connected        |-> FALSE,
      listening        |-> TRUE,
      connecting       |-> 0,
      resuming         |-> <<>>,
      lastAnalysisTime |-> 0,
      frameQueue       |-> <<>>,
      processingFrames |-> FALSE,
      pending          |-> {},
      calls            |-> <<>>,
      submitted        |-> 0,
      senders          |-> NoSenders ]

\* The connect() invocations of a client that are under way
Connects(cl) == cl.connecting + Len(cl.resuming)

\* The connect() invocations of the first n clients that are under way
RECURSIVE ConnectsOf(_, _)
ConnectsOf(clients, n) ==
    IF n = 0 THEN 0 ELSE Connects(clients[n]) + ConnectsOf(clients, n - 1)

\* What the context publishes before the first commit: createContext
NoValue == [client |-> 0, connected |-> FALSE, error |-> ""]

\* The provider before it is mounted.  client, connected and error are
\* the three states, with every update made so far: useState(null),
\* useState(false), useState(null); client is 0 for null and else the
\* position in clients of the client held, error is "" for null and else
\* what tells the Error apart.  value is the context value of the latest
\* commit.  cleanup is the client the cleanup function of the latest run
\* of the initialisation effect refers to (0: the run returned none).
\* effects are the effects the latest commit has scheduled and that have
\* yet to run.  emitted are the events the clients emitted in the latest
\* step and warned tells whether that step called logger.warn.
NoProvider ==
    [ mounted   |-> "no",
      apiKey    |-> FALSE,
      client    |-> 0,
      connected |-> FALSE,
      error     |-> "",
      value     |-> NoValue,
      clients   |-> <<>>,
      cleanup   |-> 0,
      effects   |-> {},
      emitted   |-> <<>>,
      warned    |-> FALSE ]

\* A step begins
Begin(p) == [p EXCEPT !.emitted = <<>>, !.warned = FALSE]

\* client && client.isConnected() in the callbacks of the latest commit
IsConnected(p) == p.value.client # 0 /\ p.clients[p.value.client].connected

\* The listeners newClient.on('open' | 'close' | 'error', ...): the state
\* setters they call do nothing once the provider is unmounted.  The
\* 'error' listener stores the Error that was emitted.
RECURSIVE Deliver(_, _)
Deliver(p, events) ==
    IF events = <<>> \/ p.mounted # "yes" THEN p
    ELSE LET e == Head(events)
             q == IF e.type = "open"
                  THEN [p EXCEPT !.connected = TRUE, !.error = ""]
                  ELSE IF e.type = "close"
                  THEN [p EXCEPT !.connected = FALSE]
                  ELSE IF e.type = "error"
                  THEN [p EXCEPT !.error = e.data]
                  ELSE p
         IN  Deliver(q, Tail(events))

\* Client c emits events: the listeners run if they are still attached
Emit(p, c, events) ==
    LET q == [p EXCEPT !.emitted = @ \o events]
    IN  IF p.clients[c].listening THEN Deliver(q, events) ELSE q

\* MultimodalLiveClient.disconnect() of client c
ClientDisconnect(p, c) ==
    Emit([p EXCEPT !.clients[c].connected = FALSE], c,
         <<Event("close", NoData)>>)

\* The cleanup function of the initialisation effect:
\* newClient.removeAllListeners(), then newClient.disconnect() if connected
Cleanup(p) ==
    IF p.cleanup = 0 THEN p
    ELSE LET c == p.cleanup
             q == [p EXCEPT !.clients[c].listening = FALSE, !.cleanup = 0]
         IN  IF q.clients[c].connected THEN ClientDisconnect(q, c) ELSE q

\* The initialisation effect: without an apiKey it sets error and returns,
\* else it makes a client, attaches the listeners and calls setClient
InitClient(p, hasKey) ==
    IF ~hasKey
    THEN [p EXCEPT !.error = "API key not provided"]
    ELSE [p EXCEPT !.clients = Append(@, NewClient),
                   !.client  = Len(p.clients) + 1,
                   !.cleanup = Len(p.clients) + 1]

\* connect of the context of a commit whose client is c, to its await:
\* it throws without a client, else client.connect() issues the GET
connect(p, c) ==
    IF c = 0 THEN p
    ELSE [p EXCEPT !.clients[c].connecting = @ + 1]

\* disconnect of the context
disconnect(p) ==
    IF IsConnected(p) THEN ClientDisconnect(p, p.value.client) ELSE p

\* if (client && client.isConnected()) of sendConfig of the context
Forwards_ungated(has, conn) == has
Forwards(has, conn) == has /\ conn

\* sendConfig of the context: client.sendConfig(config), or logger.warn
sendConfig(p, config) ==
    IF Forwards(p.value.client # 0, IsConnected(p))
    THEN Emit(p, p.value.client, ConfigEvents(config, IsConnected(p)))
    ELSE [p EXCEPT !.warned = TRUE]

\* What the functions of one render of VideoProctor close over: its own
\* cameraActive and the connected and client of the context value v
Closure(v, q) ==
    [ cameraActive |-> q.cameraActive,
      connected    |-> v.connected,
      client       |-> v.client ]

\* No capture interval is installed (frameIntervalRef.current = null)
NoInterval ==
    [on |-> FALSE, cameraActive |-> FALSE, connected |-> FALSE, client |-> 0]

\* VideoProctor before it is mounted.  isActive is the prop of the latest
\* commit, cameraActive the state with every update made so far, closure
\* what the functions of the latest commit close over.  cleanup tells
\* whether the effect on [isActive] has run and left its cleanup function.
\* starting holds, per startCamera invocation awaiting webcam.start(), the
\* closure of the commit it comes from; interval is the installed capture
\* interval with the closure its callback comes from.
NoProctor ==
    [ mounted      |-> "no",
      isActive     |-> FALSE,
      cameraActive |-> FALSE,
      closure      |-> Closure(NoValue, [cameraActive |-> FALSE]),
      cleanup      |-> FALSE,
      starting     |-> <<>>,
      interval     |-> NoInterval ]

\* setCameraActive(v): nothing once VideoProctor is unmounted
setCameraActive(q, v) ==
    IF q.mounted = "yes" THEN [q EXCEPT !.cameraActive = v] ELSE q

\* stopCamera(): setCameraActive(false) and clearInterval
stopCamera(q) == [setCameraActive(q, FALSE) EXCEPT !.interval = NoInterval]

\* startCamera() of the commit with closure cl, to its await
startCamera(q, cl) == [q EXCEPT !.starting = Append(@, cl)]

\* startFrameCapture() of the commit with closure cl: the callback of the
\* interval tests the cameraActive and connected of that commit
startFrameCapture(q, cl) ==
    [q EXCEPT !.interval = [ on           |-> TRUE,
                             cameraActive |-> cl.cameraActive,
                             connected    |-> cl.connected,
                             client       |-> cl.client ]]

\* frameRate = 1, the default of the prop, and the period of the capture
\* interval: Math.floor(1000 / frameRate)
frameRate == 1
CaptureInterval == 1000 \div frameRate

\* Whether a tick of the interval reaches client.sendVideoFrame(frameData):
\* if (cameraActive && connected) captureFrame(), which returns early
\* without a video element, without a client or when not connected, and
\* submits only a frame that captureVideoFrame could produce
Submits(interval, hasVideo, hasFrame) ==
    /\ interval.cameraActive
    /\ interval.connected
    /\ hasVideo
    /\ interval.client # 0
    /\ hasFrame

\* The test of the effect of VideoProctor on [cameraActive, client,
\* connected]: if (cameraActive && client && !connected) connect()
AutoConnect(cl) == cl.cameraActive /\ cl.client # 0 /\ ~cl.connected

\* React commits a render of the provider p and of VideoProctor q: the
\* state so far becomes the context value and the closure, and the effects
\* whose dependencies changed are scheduled, with those in more
Commit(p, q, more) ==
    LET v  == IF p.mounted = "yes"
              THEN [client |-> p.client, connected |-> p.connected,
                    error |-> p.error]
              ELSE p.value
        cl == IF q.mounted = "yes" THEN Closure(v, q) ELSE q.closure
    IN  /\ provider.effects = {}
        /\ provider' =
             [ p EXCEPT
                 !.value   = v,
                 !.effects = more \cup IF cl # q.closure THEN {"connect"}
                                       ELSE {} ]
        /\ proctor' = [q EXCEPT !.closure = cl]
        /\ UNCHANGED <<now, clientVars, limiterVars, parser, route,
                       proctoringConfig>>

\* LiveAPIProvider is mounted on its own
ProviderMount(hasKey) ==
    /\ provider.mounted = "no"
    /\ Commit([Begin(provider) EXCEPT !.mounted = "yes", !.apiKey = hasKey],
              proctor, {"init"})

\* LiveAPIProvider is mounted with a VideoProctor among its children, as
\* under app/layout.tsx: the first render of VideoProctor sees the context
\* value of the first render of the provider
TreeMount(hasKey, active) ==
    /\ provider.mounted = "no"
    /\ proctor.mounted = "no"
    /\ Commit([Begin(provider) EXCEPT !.mounted = "yes", !.apiKey = hasKey],
              [proctor EXCEPT !.mounted = "yes", !.isActive = active],
              {"init", "active", "connect"})

\* apiUrl, apiKey or onViolation change
ProviderProps(hasKey) ==
    /\ provider.mounted = "yes"
    /\ hasKey => Len(provider.clients) < MaxClients
    /\ Commit([Begin(provider) EXCEPT !.apiKey = hasKey], proctor, {"init"})

\* LiveAPIProvider is unmounted, and VideoProctor with it
ProviderUnmount ==
    /\ provider.mounted = "yes"
    /\ Commit([Begin(provider) EXCEPT !.mounted = "gone"],
              [proctor EXCEPT !.mounted = IF @ = "yes" THEN "gone" ELSE @],
              {"init"} \cup IF proctor.mounted = "yes" THEN {"active"}
                            ELSE {})

\* React renders for state that was set since the latest commit
Render ==
    /\ provider.mounted = "yes"
    /\ \/ provider.value # [client    |-> provider.client,
                            connected |-> provider.connected,
                            error     |-> provider.error]
       \/ /\ proctor.mounted = "yes"
          /\ proctor.closure.cameraActive # proctor.cameraActive
    /\ Commit(Begin(provider), proctor, {})

\* The effects the latest commit has scheduled run: the cleanup functions
\* of the previous runs first, then the effects, those of VideoProctor
\* before those of the provider.  An unmounted component runs its cleanup
\* functions only.
Flush ==
    /\ provider.effects # {}
    /\ LET e  == provider.effects
           p0 == [Begin(provider) EXCEPT !.effects = {}]
           q1 == IF "active" \in e /\ proctor.cleanup
                 THEN [stopCamera(proctor) EXCEPT !.cleanup = FALSE]
                 ELSE proctor
           p1 == IF "init" \in e THEN Cleanup(p0) ELSE p0
           q2 == IF "active" \in e /\ q1.mounted = "yes"
                 THEN [ (IF q1.isActive THEN startCamera(q1, q1.closure)
                         ELSE stopCamera(q1)) EXCEPT !.cleanup = TRUE ]
                 ELSE q1
           p2 == IF /\ "connect" \in e
                    /\ q1.mounted = "yes"
                    /\ AutoConnect(q1.closure)
                 THEN connect(p1, q1.closure.client)
                 ELSE p1
           p3 == IF "init" \in e /\ p2.mounted = "yes"
                 THEN InitClient(p2, p2.apiKey)
                 ELSE p2
       IN  /\ ConnectsOf(p3.clients, Len(p3.clients)) <= MaxConnects
           /\ provider' = p3
           /\ proctor' = q2
    /\ UNCHANGED <<now, clientVars, limiterVars, parser, route,
                   proctoringConfig>>

\* A consumer calls connect of the context
ProviderConnect ==
    /\ provider.mounted = "yes"
    /\ LET c == provider.value.client
       IN  /\ c # 0 => ConnectsOf(provider.clients, Len(provider.clients))
                         < MaxConnects
           /\ provider' = connect(Begin(provider), c)
    /\ UNCHANGED <<now, clientVars, limiterVars, parser, route, proctor,
                   proctoringConfig>>

\* The GET of a connect() of client c settles: the client sets connected
\* and emits 'open', or emits 'error' and throws; connect of the context
\* resumes in a later turn
ClientConnectSettle(c, outcome) ==
    /\ c \in DOMAIN provider.clients
    /\ provider.clients[c].connecting > 0
    /\ provider' =
         Emit([ Begin(provider) EXCEPT
                  !.clients[c].connecting = @ - 1,
                  !.clients[c].connected  = ConnectedAfter(outcome, @),
                  !.clients[c].resuming   = Append(@, outcome) ],
              c, ConnectEvents(outcome))
    /\ UNCHANGED <<now, clientVars, limiterVars, parser, route, proctor,
                   proctoringConfig>>

\* setError(err) of connect of the context: nothing once the provider is
\* unmounted
setError(p, err) == IF p.mounted = "yes" THEN [p EXCEPT !.error = err] ELSE p

\* await client.connect() of connect of the context settles for the i-th
\* of the settled invocations of client c: connect returns, or its catch
\* block calls setError with the Error that was thrown and throws it again
ProviderConnectResume(c, i) ==
    /\ c \in DOMAIN provider.clients
    /\ i \in DOMAIN provider.clients[c].resuming
    /\ LET outcome == provider.clients[c].resuming[i]
           p == [ Begin(provider) EXCEPT
                    !.clients[c].resuming =
                       SubSeq(@, 1, i - 1) \o SubSeq(@, i + 1, Len(@)) ]
       IN  provider' = IF outcome = "ok" THEN p ELSE setError(p, outcome)
    /\ UNCHANGED <<now, clientVars, limiterVars, parser, route, proctor,
                   proctoringConfig>>

\* A consumer calls disconnect of the context
ProviderDisconnect ==
    /\ provider.mounted = "yes"
    /\ provider' = disconnect(Begin(provider))
    /\ UNCHANGED <<now, clientVars, limiterVars, parser, route, proctor,
                   proctoringConfig>>

\* A consumer calls sendConfig of the context
ProviderSendConfig(config) ==
    /\ provider.mounted = "yes"
    /\ provider' = sendConfig(Begin(provider), config)
    /\ UNCHANGED <<now, clientVars, limiterVars, parser, route, proctor,
                   proctoringConfig>>

\* VideoProctor is mounted under a provider that is mounted already
ProctorMount(active) ==
    /\ provider.mounted = "yes"
    /\ proctor.mounted = "no"
    /\ Commit(Begin(provider),
              [proctor EXCEPT !.mounted = "yes", !.isActive = active],
              {"active", "connect"})

\* The isActive prop changes
ProctorSetActive(active) ==
    /\ proctor.mounted = "yes"
    /\ active # proctor.isActive
    /\ active => Len(proctor.starting) < MaxStarts
    /\ Commit(Begin(provider), [proctor EXCEPT !.isActive = active],
              {"active"})

\* VideoProctor is unmounted
ProctorUnmount ==
    /\ proctor.mounted = "yes"
    /\ Commit(Begin(provider), [proctor EXCEPT !.mounted = "gone"],
              {"active"})

\* await webcam.start() of the i-th waiting startCamera settles, with a
\* stream or with null (webcam.start catches its own errors): with a
\* stream, setCameraActive(true) and startFrameCapture()
ProctorStartSettle(i, stream) ==
    /\ i \in DOMAIN proctor.starting
    /\ LET cl == proctor.starting[i]
           q1 == [ proctor EXCEPT
                     !.starting = SubSeq(@, 1, i - 1)
                                    \o SubSeq(@, i + 1, Len(@)) ]
       IN  proctor' = IF stream
                      THEN startFrameCapture(setCameraActive(q1, TRUE), cl)
                      ELSE q1
    /\ provider' = Begin(provider)
    /\ UNCHANGED <<now, clientVars, limiterVars, parser, route,
                   proctoringConfig>>

\* The capture interval fires, CaptureInterval after the step before: its
\* callback returns, or captureFrame calls client.sendVideoFrame(frameData)
\* on the client of its closure
ProctorTick(hasVideo, hasFrame) ==
    /\ proctor.interval.on
    /\ now + CaptureInterval \in ClientTimes
    /\ now' = now + CaptureInterval
    /\ LET c == proctor.interval.client
       IN  IF Submits(proctor.interval, hasVideo, hasFrame)
           THEN /\ provider.clients[c].submitted < MaxCaptures
                /\ \E d \in FrameData :
                      provider' = [ Begin(provider) EXCEPT
                                      !.clients[c] =
                                         sendVideoFrame(@, d, now') ]
           ELSE provider' = Begin(provider)
    /\ UNCHANGED <<clientVars, limiterVars, parser, route, proctor,
                   proctoringConfig>>

\* The POST of the invocation k of analyzeFrame of client c settles
ClientFetchSettle(c, k, outcome) ==
    /\ c \in DOMAIN provider.clients
    /\ k \in provider.clients[c].pending
    /\ k.stage = "fetch"
    /\ provider' =
         Emit([ Begin(provider) EXCEPT
                  !.clients[c].pending =
                     AtStage(@, k, FetchResult(outcome).stage) ],
              c, FetchResult(outcome).emitted)
    /\ UNCHANGED <<now, clientVars, limiterVars, parser, route, proctor,
                   proctoringConfig>>

\* response.json() of the invocation k of client c settles
ClientJsonSettle(c, k, parsed, data) ==
    /\ c \in DOMAIN provider.clients
    /\ k \in provider.clients[c].pending
    /\ k.stage = "json"
    /\ provider' =
         Emit([ Begin(provider) EXCEPT
                  !.clients[c].pending =
                     AtStage(@, k, JsonStage(parsed, data)) ],
              c, JsonEvents(parsed, data, now))
    /\ UNCHANGED <<now, clientVars, limiterVars, parser, route, proctor,
                   proctoringConfig>>

\* await this.processViolations(data) of the invocation k of client c
\* settles
ClientViolationsSettle(c, k) ==
    /\ c \in DOMAIN provider.clients
    /\ k \in provider.clients[c].pending
    /\ k.stage \in {"violations", "thrown"}
    /\ provider' =
         Emit([ Begin(provider) EXCEPT
                  !.clients[c].pending =
                     AtStage(@, k, ViolationsResult(k.stage).stage) ],
              c, ViolationsResult(k.stage).emitted)
    /\ UNCHANGED <<now, clientVars, limiterVars, parser, route, proctor,
                   proctoringConfig>>

\* await this.analyzeFrame(frame) of processFrameQueue of client c settles
\* for the invocation k
ClientAnalyzeSettle(c, k) ==
    /\ c \in DOMAIN provider.clients
    /\ k \in provider.clients[c].pending
    /\ k.stage = "returned"
    /\ provider' = [ Begin(provider) EXCEPT
                       !.clients[c] = resumeFrameQueue(@, k, now) ]
    /\ UNCHANGED <<now, clientVars, limiterVars, parser, route, proctor,
                   proctoringConfig>>

\* await this.processFrameQueue() in a finally block of client c settles
ClientQueueSettle(c, d) ==
    /\ c \in DOMAIN provider.clients
    /\ d >= 1
    /\ BagIn(d, provider.clients[c].senders.ready)
    /\ provider' = [ Begin(provider) EXCEPT
                       !.clients[c].senders = Resumed(@, d) ]
    /\ UNCHANGED <<now, clientVars, limiterVars, parser, route, proctor,
                   proctoringConfig>>

\* await this.processFrameQueue() in sendVideoFrame of client c settles
ClientSendSettle(c) ==
    /\ c \in DOMAIN provider.clients
    /\ BagIn(0, provider.clients[c].senders.ready)
    /\ provider' = [ Begin(provider) EXCEPT
                       !.clients[c].senders = Fulfilled(@) ]
    /\ UNCHANGED <<now, clientVars, limiterVars, parser, route, proctor,
                   proctoringConfig>>

---------------------------------------------------------------------------
(* Proctoring configuration: app/config/proctoring-config.ts               *)

\* The strictness option: 'low' | 'medium' | 'high', or left out
Strictness   == { "low", "medium", "high" }
NoStrictness == "undefined"
Options      == Strictness \cup { NoStrictness }

\* getProctoringSystemPrompt(options): the parts of the prompt that depend
\* on the options.  const { strictness = 'medium' } = options
getProctoringSystemPrompt(options) ==
    LET strictness == IF options = NoStrictness THEN "medium" ELSE options
    IN  [ lookingAway        |-> IF strictness = "high" THEN 2
                                 ELSE IF strictness = "medium" THEN 3 ELSE 5,
          lowEngagement      |-> IF strictness = "high" THEN 10
                                 ELSE IF strictness = "medium" THEN 15 ELSE 20,
          suspiciousMovement |-> IF strictness = "high" THEN "frequent"
                                 ELSE IF strictness = "medium" THEN "repeated"
                                 ELSE "excessive" ]

\* getDefaultProctoringConfig(options): the thresholds test
\* options.strictness itself (temperature and thresholds in hundredths)
getDefaultProctoringConfig(options) ==
    [ systemPrompt        |-> getProctoringSystemPrompt(options),
      temperature         |-> 20,
      maxOutputTokens     |-> 256,
      detectionThresholds |->
        [ lookingAway        |-> IF options = "high" THEN 70
                                 ELSE IF options = "medium" THEN 80 ELSE 90,
          multiplePersons    |-> 85,
          lowEngagement      |-> IF options = "high" THEN 75
                                 ELSE IF options = "medium" THEN 85 ELSE 90,
          suspiciousActivity |-> IF options = "high" THEN 70
                                 ELSE IF options = "medium" THEN 80 ELSE 90 ] ]

\* No configuration has been built
NoConfig == <<>>

\* A consumer builds a configuration:
\* const config = getDefaultProctoringConfig(options)
BuildConfig(options) ==
    /\ Len(proctoringConfig) < MaxBuilds
    /\ proctoringConfig' =
         Append(proctoringConfig,
                [ options |-> options,
                  value   |-> getDefaultProctoringConfig(options) ])
    /\ UNCHANGED <<now, clientVars, limiterVars, parser, route, provider,
                   proctor>>

---------------------------------------------------------------------------
(* Initial state and the client specification                              *)

InitWith(text) ==
    /\ now = StartTime
    /\ connected = FALSE
    /\ lastAnalysisTime = 0
    /\ frameQueue = <<>>
    /\ processingFrames = FALSE
    /\ pending = {}
    /\ connecting = 0
    /\ emitted = <<>>
    /\ settled = "none"
    /\ senders = NoSenders
    /\ stale = 0
    /\ submitted = 0
    /\ calls = <<>>
    /\ ipRequestMap = <<>>
    /\ response = NoResponse
    /\ nth = [k \in Keys |-> 0]
    /\ span = NoSpan
    /\ unswept = NoUnswept
    /\ parser = Unparsed(text)
    /\ route = IdleRoute
    /\ provider = NoProvider
    /\ proctor = NoProctor
    /\ proctoringConfig = NoConfig

Init == InitWith(<<>>)

Next ==
    \/ \E d \in FrameData : SendVideoFrame(d)
    \/ \E c \in pending, o \in {"ok", "notok", "reject"} : FetchSettle(c, o)
    \/ \E c \in pending, d \in ReplyData : JsonSettle(c, TRUE, d)
    \/ \E c \in pending : JsonSettle(c, FALSE, NoParts)
    \/ \E c \in pending : ViolationsSettle(c)
    \/ \E c \in pending : AnalyzeSettle(c)
    \/ \E d \in 1..MaxFrames : QueueSettle(d)
    \/ SendSettle
    \/ Connect
    \/ \E o \in {"ok", "notok", "reject"}, old \in BOOLEAN :
          ConnectSettle(o, old)
    \/ Disconnect
    \/ \E cfg \in Configs : SendConfig(cfg)
    \/ ClientTick

Spec == Init /\ [][Next]_vars

\* The client with what the browser guarantees: time passes, and a
\* continuation whose promise has settled runs.  Nothing in the client
\* makes the remote endpoint answer (fetch is called without an
\* AbortSignal and no timer is set), so the steps that settle a request
\* carry no fairness condition.
SpecLive ==
    /\ Init /\ [][Next]_vars
    /\ WF_vars(ClientTick)
    /\ WF_vars(\E c \in pending : ViolationsSettle(c))
    /\ WF_vars(\E c \in pending : AnalyzeSettle(c))
    /\ WF_vars(\E d \in 1..MaxFrames : QueueSettle(d))
    /\ WF_vars(SendSettle)

\* Requests without a client address stay below MaxAnon in one window;
\* the address "10.0.0.1" sends as many requests as it likes.
WithinBound(ip) ==
    LET key == KeyOf(ip)
    IN  IF ip = NoIp /\ key \in DOMAIN ipRequestMap
        THEN \/ now > ipRequestMap[key].resetTime
             \/ ipRequestMap[key].count < MaxAnon
        ELSE TRUE

\* The limiter, serving two addresses
NextLimiter ==
    \/ \E ip \in Ips, api \in BOOLEAN :
          WithinBound(ip) /\ Middleware(ip, api, FALSE)
    \/ Sweep
    \/ LimiterTick

SpecLimiter == Init /\ [][NextLimiter]_vars

\* The limiter serving one address, with a one-minute span observed
NextWindow ==
    \/ \E watch \in BOOLEAN : Middleware("10.0.0.1", TRUE, watch)
    \/ Sweep
    \/ LimiterTick

SpecWindow == Init /\ [][NextWindow]_vars

\* The route handlers, one request at a time
NextRoute ==
    \/ \E method \in Methods, env \in EnvKeys, rawBody \in Bodies :
          PostStart(method, env, rawBody)
    \/ \E error \in BodyRejections : PostBodySettle(error)
    \/ PostFetchSettle("ok", 200, NotJson)
    \/ \E error \in Rejections : PostFetchSettle("reject", 0, error)
    \/ \E status \in RemoteStatuses : PostFetchSettle("notok", status, NotJson)
    \/ \E t \in ErrorTexts : PostTextSettle(TRUE, t, Terminated)
    \/ PostTextSettle(FALSE, CHOOSE t \in ErrorTexts : TRUE, Terminated)
    \/ PostJsonSettle(TRUE, NotJson)
    \/ \E error \in BodyRejections : PostJsonSettle(FALSE, error)
    \/ \E env \in EnvKeys : GetStart(env)
    \/ GetFetchSettle("ok", 200, NotJson)
    \/ \E error \in Rejections : GetFetchSettle("reject", 0, error)
    \/ \E status \in RemoteStatuses : GetFetchSettle("notok", status, NotJson)

SpecRoute == Init /\ [][NextRoute]_vars

\* LiveAPIProvider with consumers that call its callbacks
NextProvider ==
    \/ \E hasKey \in BOOLEAN : ProviderMount(hasKey)
    \/ \E hasKey \in BOOLEAN : ProviderProps(hasKey)
    \/ ProviderUnmount
    \/ Render
    \/ Flush
    \/ ProviderConnect
    \/ \E c \in DOMAIN provider.clients, o \in {"ok", "notok", "reject"} :
          ClientConnectSettle(c, o)
    \/ \E c \in DOMAIN provider.clients :
          \E i \in DOMAIN provider.clients[c].resuming :
             ProviderConnectResume(c, i)
    \/ ProviderDisconnect
    \/ \E cfg \in Configs : ProviderSendConfig(cfg)

SpecProvider == Init /\ [][NextProvider]_vars

\* Bodies of the replies to the frames VideoProctor submits
ProctorReplyData == { Reply(<<<<Marker, Blank, "a">>>>) }

\* How the requests of the client settle under VideoProctor: response.ok,
\* or an error status
ProctorOutcomes == { "ok", "notok" }

\* VideoProctor inside the LiveAPIProvider of app/layout.tsx: the props of
\* the provider are taken from the environment once, and VideoProctor, the
\* one consumer of the context, takes client, connected and connect from it
NextProctor ==
    \/ \E hasKey \in BOOLEAN : ProviderMount(hasKey)
    \/ ProviderUnmount
    \/ Render
    \/ Flush
    \/ \E c \in DOMAIN provider.clients, o \in ProctorOutcomes :
          ClientConnectSettle(c, o)
    \/ \E c \in DOMAIN provider.clients :
          \E i \in DOMAIN provider.clients[c].resuming :
             ProviderConnectResume(c, i)
    \/ \E hasKey, active \in BOOLEAN : TreeMount(hasKey, active)
    \/ \E active \in BOOLEAN : ProctorMount(active)
    \/ \E active \in BOOLEAN : ProctorSetActive(active)
    \/ ProctorUnmount
    \/ \E i \in DOMAIN proctor.starting, stream \in BOOLEAN :
          ProctorStartSettle(i, stream)
    \/ \E hasVideo, hasFrame \in BOOLEAN : ProctorTick(hasVideo, hasFrame)
    \/ \E c \in DOMAIN provider.clients, o \in ProctorOutcomes :
          \E k \in provider.clients[c].pending : ClientFetchSettle(c, k, o)
    \/ \E c \in DOMAIN provider.clients, d \in ProctorReplyData :
          \E k \in provider.clients[c].pending :
             ClientJsonSettle(c, k, TRUE, d)
    \/ \E c \in DOMAIN provider.clients :
          \E k \in provider.clients[c].pending :
             ClientJsonSettle(c, k, FALSE, NoParts)
    \/ \E c \in DOMAIN provider.clients :
          \E k \in provider.clients[c].pending : ClientViolationsSettle(c, k)
    \/ \E c \in DOMAIN provider.clients :
          \E k \in provider.clients[c].pending : ClientAnalyzeSettle(c, k)
    \/ \E c \in DOMAIN provider.clients, d \in 1..MaxFrames :
          ClientQueueSettle(c, d)
    \/ \E c \in DOMAIN provider.clients : ClientSendSettle(c)

SpecProctor == Init /\ [][NextProctor]_vars

\* A consumer that builds proctoring configurations
NextConfig == \E options \in Options : BuildConfig(options)

SpecConfig == Init /\ [][NextConfig]_vars

\* The parser on its own: one text, parsed once
InitParser == \E text \in Texts : InitWith(text)

NextParser == ParseText

SpecParser == InitParser /\ [][NextParser]_vars

---------------------------------------------------------------------------
(* Claims about the frame queue and the analyzer (specification Spec)      *)

\* C1: at most one remote analysis call is in flight at any time, under
\* every interleaving of sendVideoFrame calls and completions.
C1_OneInFlight == Cardinality(InFlight(pending)) <= 1

\* C1 witness: a frame was submitted while an analysis was in flight and
\* waits in the queue, the analysis still being in flight.
C1_Witness ==
    /\ InFlight(pending) # {}
    /\ \E i \in DOMAIN frameQueue : frameQueue[i].during # 0

\* C2: any two consecutive remote analysis calls start at least
\* analysisInterval apart.
C2_MinInterval ==
    \A i \in 1..(Len(calls) - 1) :
        calls[i + 1].start - calls[i].start >= analysisInterval

\* C2 witness: a second call started exactly analysisInterval after the
\* first, after more frames than calls had been submitted.
C2_Witness ==
    /\ Len(calls) >= 2
    /\ calls[2].start - calls[1].start = analysisInterval
    /\ submitted > Len(calls)

\* C3: frameQueue never holds more than one frame (stated as claimed).
C3_SingleSlot == Len(frameQueue) <= 1

\* C4: the frame an analysis call sends is the most recently submitted
\* frame at that moment, and no older frame is analyzed later.
C4_NewestFrame ==
    /\ \A i \in DOMAIN calls : calls[i].seq = calls[i].newest
    /\ \A i, j \in DOMAIN calls : i < j => calls[i].seq < calls[j].seq

\* C4 witness: a call sent a frame that had superseded an older unsent one.
C4_Witness ==
    \E i \in 2..Len(calls) : calls[i].seq > calls[i - 1].seq + 1

\* C5: of the frames submitted while one analysis is in flight, at most
\* one is ever sent for analysis.
C5_Coalescing ==
    \A i, j \in DOMAIN calls :
        (i # j /\ calls[i].during # 0) => calls[i].during # calls[j].during

\* C5 witness: two or more frames were submitted while a call was in
\* flight, and one call was made for the newest of them.
C5_Witness ==
    \E j \in DOMAIN calls :
        /\ calls[j].during # 0
        /\ calls[j].seq >= calls[calls[j].during].seq + 2

\* The violations parsed from the parts of a reply, in source order: those
\* of the parts before the first null part, at which the parsing ends
RECURSIVE ParsedViolations(_, _)
ParsedViolations(parts, t) ==
    IF parts = <<>> \/ Head(parts) = NullPart THEN <<>>
    ELSE extractViolations(Head(parts), t) \o ParsedViolations(Tail(parts), t)

\* How often v occurs in the events es as a 'violation' event
Emissions(es, v) ==
    Cardinality({ i \in DOMAIN es : es[i] = Event("violation", v) })

\* C10: every violation parsed from a response is emitted exactly once if
\* its confidence is at least confidenceThreshold and never if it is below,
\* and nothing else is emitted in the step that parses the response.
C10_ConfidenceGating ==
    [][ \A c \in pending, d \in ReplyData :
          JsonSettle(c, TRUE, d) =>
            LET parsed == ParsedViolations(d.parts, now)
            IN  /\ \A k \in DOMAIN parsed :
                     Emissions(emitted', parsed[k]) =
                       IF parsed[k].confidence >= confidenceThreshold
                       THEN Cardinality({ m \in DOMAIN parsed :
                                            parsed[m] = parsed[k] })
                       ELSE 0
                /\ Len(emitted') <= Len(parsed)
      ]_vars

\* C10 witness: a reply with two violations was processed and both were
\* emitted.
C10_Witness ==
    /\ Len(emitted) = 2
    /\ \A i \in DOMAIN emitted : emitted[i].type = "violation"
    /\ emitted[1] # emitted[2]

---------------------------------------------------------------------------
(* Claims about the rate limiter (SpecLimiter, SpecWindow)                 *)

\* C6: counted from a request that finds no live entry, the first max
\* requests of an address within the window are admitted, and every further
\* request that still finds the entry live is rejected with status 429.
C6_Boundary ==
    response.out.api =>
        /\ response.pos <= rateLimit.max => response.out.status = 200
        /\ response.pos > rateLimit.max  => response.out.status = 429

\* C6 witness: a request after the first max ones of its window, made
\* before the reset time, was rejected.
C6_Witness ==
    /\ response.out.api
    /\ response.pos = rateLimit.max + 1
    /\ response.out.status = 429
    /\ response.out.key \in DOMAIN ipRequestMap
    /\ response.out.time < ipRequestMap[response.out.key].resetTime

\* C7: every entry of the table has count <= max in every reachable state.
C7_CountBounded ==
    \A k \in DOMAIN ipRequestMap : ipRequestMap[k].count <= rateLimit.max

\* C7 witness: an address at the maximum asked again and was rejected, its
\* count staying at the maximum.
C7_Witness ==
    /\ response.out.status = 429
    /\ response.out.key \in DOMAIN ipRequestMap
    /\ ipRequestMap[response.out.key].count = rateLimit.max
    /\ response.prev.count = rateLimit.max

\* C8: the first request after an entry's window has expired is admitted
\* and replaces the entry by count = 1, resetTime = now + windowMs, whatever
\* the count was; the stale entry is not incremented.
C8_StaleReplaced ==
    [][ \A ip \in Ips :
          ( /\ KeyOf(ip) \in DOMAIN ipRequestMap
            /\ now > ipRequestMap[KeyOf(ip)].resetTime
            /\ Middleware(ip, TRUE, FALSE) )
          => /\ response'.out.status = 200
             /\ ipRequestMap'[KeyOf(ip)] =
                  [count |-> 1, resetTime |-> now + rateLimit.windowMs]
      ]_vars

\* C8 witness: a request found an expired entry whose count was at the
\* maximum and was admitted as the first of a new window.
C8_Witness ==
    /\ response.out.api
    /\ response.prev.has
    /\ ~response.prev.live
    /\ response.prev.count = rateLimit.max
    /\ response.out.status = 200
    /\ response.out.remaining = rateLimit.max - 1

\* C9: no more than max requests of one address are admitted in any span
\* of one minute, wherever the span starts (stated as claimed).
C9_AnyMinute == span.count <= rateLimit.max

---------------------------------------------------------------------------
(* Claims about the parser (specification SpecParser)                      *)

\* The lines of a text are its maximal runs without a line break.  A marker
\* line is a line that holds the marker; FirstMarkers are the positions of
\* the first marker of each marker line.
SameLine(text, i, j) == \A p \in i..j : text[p] # Break

FirstMarkers(text) ==
    { m \in DOMAIN text :
        /\ text[m] = Marker
        /\ \A p \in 1..(m - 1) :
              text[p] = Marker => ~SameLine(text, p, m) }

\* The characters of the category of the marker at m: what follows the
\* marker on its line, without the blanks around it
CategoryChars(text, m) ==
    { p \in (m + 1)..Len(text) : SameLine(text, m, p) /\ text[p] # Blank }

\* A marker line is well formed when its marker is followed, on the same
\* line, by a category
WellFormed(text) == \A m \in FirstMarkers(text) : CategoryChars(text, m) # {}

Min(S) == CHOOSE x \in S : \A y \in S : x <= y

\* The category of the marker at m, trimmed
Category(text, m) ==
    SubSeq(text, Min(CategoryChars(text, m)), Max(CategoryChars(text, m)))

RECURSIVE Ascending(_)
Ascending(S) ==
    IF S = {} THEN <<>> ELSE <<Min(S)>> \o Ascending(S \ {Min(S)})

\* C11: a text all of whose marker lines are well formed, N of them, yields
\* exactly N violations, in the order of the lines, the type of each being
\* the category of its line without the surrounding whitespace; exactly
\* these are emitted, in that order, and no 'error'.  With N = 0 nothing is
\* emitted.
C11_Multiplicity ==
    (parser.parsed /\ WellFormed(parser.text)) =>
        LET ms == Ascending(FirstMarkers(parser.text))
        IN  /\ Len(parser.violations) = Len(ms)
            /\ \A k \in DOMAIN ms :
                  parser.violations[k].type = Category(parser.text, ms[k])
            /\ emitted = [ k \in DOMAIN ms |->
                             Event("violation", parser.violations[k]) ]

\* C11 witness: a text of two well-formed marker lines with different
\* categories, one of them followed by a blank, was parsed into two
\* violations.
C11_Witness ==
    /\ parser.parsed
    /\ WellFormed(parser.text)
    /\ Cardinality(FirstMarkers(parser.text)) = 2
    /\ Len(emitted) = 2
    /\ emitted[1].data.type # emitted[2].data.type
    /\ \E i \in DOMAIN parser.text :
          parser.text[i] = Blank /\ i > Max(FirstMarkers(parser.text))

---------------------------------------------------------------------------
(* Claims about the session and about failed analyses (specification Spec) *)

\* How many events of one type es holds
CountType(es, type) == Cardinality({ i \in DOMAIN es : es[i].type = type })

\* The outcomes of a request that make it fail: a response that is not OK,
\* a rejected fetch
Failed == { "notok", "reject" }

\* A frame submitted now would pass the cadence gate with no analysis
\* in flight
Eligible == ~processingFrames /\ now - lastAnalysisTime >= analysisInterval

\* C12 (as claimed): a frame submitted with sendVideoFrame while the client
\* is not connected starts no remote analysis call.
C12_DroppedWhenDisconnected ==
    [][ \A d \in FrameData :
          (SendVideoFrame(d) /\ ~connected) => calls' = calls
      ]_vars

\* C12 (amended): sendVideoFrame does not consult the connection state.  A
\* frame submitted while the client is not connected is treated like any
\* other: it starts a remote analysis call at once when no analysis is in
\* flight and analysisInterval has passed since the last call started, it
\* waits in the queue as the newest frame when an analysis is in flight,
\* and it is discarded when the cadence gate is closed.
C12_Ungated ==
    [][ \A d \in FrameData :
          (SendVideoFrame(d) /\ ~connected) =>
            /\ Eligible =>
                  /\ Len(calls') = Len(calls) + 1
                  /\ Last(calls').seq = submitted'
                  /\ Last(calls').start = now
            /\ processingFrames =>
                  /\ calls' = calls
                  /\ Len(frameQueue') = Len(frameQueue) + 1
                  /\ Last(frameQueue').seq = submitted'
            /\ (~processingFrames /\ ~Eligible) =>
                  /\ calls' = calls
                  /\ frameQueue' = <<>>
      ]_vars

\* C12 witness: the client is not connected and no connect() is under way,
\* and the latest step was a sendVideoFrame whose frame, submitted at this
\* moment, is in a POST that has just started.
C12_Witness ==
    /\ ~connected
    /\ connecting = 0
    /\ emitted = <<>>
    /\ settled = "none"
    /\ \E c \in pending :
          /\ c.stage = "fetch"
          /\ c.frame.timestamp = now
          /\ calls[c.id].start = now
          /\ calls[c.id].during = 0

\* C13: when the GET of a connect() succeeds the client is connected,
\* exactly one 'open' is emitted and connect() resolves; when the GET
\* rejects or answers with a status that is not OK, connect() rejects with
\* that error, no 'open' is emitted and the connection state stays as it
\* was (a disconnected client stays disconnected).  connect() issues one
\* GET and its failure issues no other.
C13_Connect ==
    [][ /\ Connect => connecting' = connecting + 1
        /\ \A o \in {"ok"} \cup Failed, old \in BOOLEAN :
              ConnectSettle(o, old) =>
                /\ connecting' = connecting - 1
                /\ o = "ok" =>
                      /\ connected'
                      /\ emitted' = <<Event("open", NoData)>>
                      /\ settled' = "resolved"
                /\ o \in Failed =>
                      /\ connected' = connected
                      /\ CountType(emitted', "open") = 0
                      /\ emitted' = <<Event("error", o)>>
                      /\ settled' = "rejected"
      ]_vars

\* C13 witness: the GET of a connect() on a disconnected client answered
\* with a status that is not OK: connect() rejected, the client is still
\* disconnected and no GET is under way.
C13_Witness ==
    /\ ~connected
    /\ connecting = 0
    /\ settled = "rejected"
    /\ emitted = <<Event("error", "notok")>>

\* C14 (as claimed): after disconnect() the client becomes connected only
\* through a connect() that began after that disconnect(); a connect() that
\* was awaiting its GET when disconnect() ran does not connect the client.
C14_StaysDisconnected ==
    [][ (~connected /\ connected') => stale' = stale ]_vars

\* C15 (as claimed): disconnect() on a client that is not connected changes
\* no state and emits no event.
C15_Idempotent ==
    [][ (Disconnect /\ ~connected) =>
          /\ emitted' = <<>>
          /\ connected' = connected
      ]_vars

\* C16 (as claimed): sendConfig on a client that is not connected emits no
\* 'config' event.
C16_Dropped ==
    [][ \A cfg \in Configs :
          (SendConfig(cfg) /\ ~connected) => CountType(emitted', "config") = 0
      ]_vars

\* C16 (amended): MultimodalLiveClient.sendConfig does not consult the
\* connection state.  Called while the client is not connected it emits
\* one 'config' event with the config supplied, at once, and leaves the
\* connection state alone; nothing is queued, so a connect() that completes
\* later emits no 'config'.
C16_EmitsAtOnce ==
    [][ /\ \A cfg \in Configs :
              (SendConfig(cfg) /\ ~connected) =>
                /\ emitted' = <<Event("config", cfg)>>
                /\ ~connected'
        /\ \A o \in {"ok"} \cup Failed, old \in BOOLEAN :
              ConnectSettle(o, old) => CountType(emitted', "config") = 0
      ]_vars

\* C16 witness: sendConfig on a client that is not connected has just
\* emitted 'config'.
C16_Witness ==
    /\ ~connected
    /\ CountType(emitted, "config") = 1

\* C17: sendConfig(config) on a connected client emits exactly one 'config'
\* event whose payload is the config supplied, and changes neither the
\* connection state nor the frame queue.
C17_ConfigDelivered ==
    [][ \A cfg \in Configs :
          (SendConfig(cfg) /\ connected) =>
            /\ emitted' = <<Event("config", cfg)>>
            /\ connected'
            /\ frameQueue' = frameQueue
      ]_vars

\* C17 witness: sendConfig has just emitted 'config' on a connected client
\* that holds a frame in its queue.
C17_Witness ==
    /\ connected
    /\ frameQueue # <<>>
    /\ emitted = <<Event("config", "cfgLow")>>

\* C18: when the POST of an analysis rejects or answers with a status that
\* is not OK, exactly one 'error' event is emitted and no 'violation' event,
\* and analyzeFrame returns.  The step that resumes processFrameQueue then
\* emits nothing and, unless it starts the analysis of a queued frame, ends
\* the chain sendVideoFrame awaits.  No step rejects the promise of
\* sendVideoFrame, and the step that resumes sendVideoFrame fulfils it.
C18_FailureReported ==
    [][ /\ \A c \in pending :
              /\ \A o \in Failed :
                    FetchSettle(c, o) =>
                      /\ CountType(emitted', "error") = 1
                      /\ CountType(emitted', "violation") = 0
                      /\ Len(emitted') = 1
                      /\ settled' = "none"
                      /\ [c EXCEPT !.stage = "returned"] \in pending'
              /\ AnalyzeSettle(c) =>
                      /\ emitted' = <<>>
                      /\ settled' = "none"
                      /\ pending' = {} =>
                            /\ senders'.chain = 0
                            /\ BagCardinality(senders'.ready) =
                                  BagCardinality(senders.ready) + 1
        /\ (\E d \in 1..MaxFrames : QueueSettle(d)) =>
              /\ settled' = "none"
              /\ BagCardinality(senders'.ready) = BagCardinality(senders.ready)
        /\ SendSettle =>
              /\ settled' = "resolved"
              /\ emitted' = <<>>
      ]_vars

\* C18 witness: the POST of an analysis answered with a status that is not
\* OK; 'error' was emitted and analyzeFrame has returned.
C18_Witness ==
    /\ emitted = <<Event("error", "notok")>>
    /\ settled = "none"
    /\ senders.chain = 1
    /\ \E c \in pending : c.stage = "returned"

\* C19: a failed analysis leaves the connection state as it was; when
\* processFrameQueue resumes after it, the invocation ends and
\* processingFrames is cleared (and set again only for an analysis started
\* in the same step, of the newest queued frame), and a frame submitted
\* when no analysis is in flight and analysisInterval has passed is
\* analyzed.
C19_NotSessionEnding ==
    [][ /\ \A c \in pending :
              /\ \A o \in Failed :
                    FetchSettle(c, o) => connected' = connected
              /\ AnalyzeSettle(c) =>
                    /\ connected' = connected
                    /\ c \notin pending'
                    /\ processingFrames' = (pending' # {})
                    /\ pending' # {} =>
                          /\ Len(calls') = Len(calls) + 1
                          /\ Last(calls').seq = Last(frameQueue).seq
        /\ \A d \in FrameData :
              (SendVideoFrame(d) /\ Eligible) =>
                /\ Len(calls') = Len(calls) + 1
                /\ Last(calls').seq = submitted'
      ]_vars

\* C19 witness: on a connected client the POST of an analysis was rejected
\* after a frame had been queued behind it, and the cadence gate is open
\* for that frame.
C19_Witness ==
    /\ connected
    /\ emitted = <<Event("error", "reject")>>
    /\ processingFrames
    /\ now - lastAnalysisTime >= analysisInterval
    /\ \E c \in pending :
          /\ c.stage = "returned"
          /\ frameQueue # <<>>
          /\ Last(frameQueue).during = c.id

\* C20: no frame is sent twice: the calls carry pairwise different frames,
\* a frame that a call carries is not in the queue again, and every
\* analyzeFrame invocation has made the one call recorded under its id.
C20_AtMostOnce ==
    /\ \A i, j \in DOMAIN calls : calls[i].seq = calls[j].seq => i = j
    /\ \A i \in DOMAIN frameQueue, j \in DOMAIN calls :
          frameQueue[i].seq # calls[j].seq
    /\ \A c \in pending :
          /\ c.id \in DOMAIN calls
          /\ calls[c.id].seq = c.frame.seq
          /\ \A k \in pending : k.id = c.id => k = c

\* C20 witness: an analysis has failed at a moment when the cadence gate
\* would let another call start, and no frame is queued.
C20_Witness ==
    /\ \E c \in pending : c.stage = "returned"
    /\ frameQueue = <<>>
    /\ CountType(emitted, "error") = 1
    /\ now - lastAnalysisTime >= analysisInterval

---------------------------------------------------------------------------
(* Claims about draining and the cadence gate (Spec, SpecLive)             *)

\* C21 (as claimed): whenever an analysis is in flight, processingFrames
\* eventually returns to false, even if the remote endpoint never answers.
C21_EventuallyIdle == processingFrames ~> ~processingFrames

\* C22 (as claimed): when an analysis completes and frames arrived while it
\* was in flight, the newest of them is sent for analysis in the step that
\* resumes processFrameQueue.
C22_DrainedAtOnce ==
    [][ \A c \in pending :
          (AnalyzeSettle(c) /\ frameQueue # <<>>) =>
            /\ Len(calls') = Len(calls) + 1
            /\ Last(calls').seq = Last(frameQueue).seq
      ]_vars

\* C22 (amended): when an analysis completes and frames arrived while it
\* was in flight, the queue is emptied in the step that resumes
\* processFrameQueue.  The newest of the frames is sent for analysis in
\* that step if at least analysisInterval has passed since the completed
\* analysis started; otherwise it is discarded with the others and no call
\* is made.
C22_DrainedThroughGate ==
    [][ \A c \in pending :
          (AnalyzeSettle(c) /\ frameQueue # <<>>) =>
            /\ frameQueue' = <<>>
            /\ IF now - lastAnalysisTime >= analysisInterval
               THEN /\ Len(calls') = Len(calls) + 1
                    /\ Last(calls').seq = Last(frameQueue).seq
                    /\ Last(calls').start = now
                    /\ processingFrames'
               ELSE /\ calls' = calls
                    /\ pending' = {}
                    /\ ~processingFrames'
      ]_vars

\* C22 witness: an analysis has completed with an 'error' or a 'violation'
\* less than analysisInterval after it had started, and frames submitted
\* while it was in flight are in the queue.
C22_Witness ==
    /\ emitted # <<>>
    /\ emitted[1].type \in {"error", "violation"}
    /\ \E c \in pending :
          /\ c.stage \in {"violations", "returned"}
          /\ frameQueue # <<>>
          /\ Last(frameQueue).during = c.id
          /\ lastAnalysisTime = calls[c.id].start
    /\ now - lastAnalysisTime < analysisInterval

\* C23 (as claimed): a frame submitted while no analysis is in flight and
\* less than analysisInterval after the last analysis started is still in
\* the queue when sendVideoFrame returns.
C23_HeldForLater ==
    [][ \A d \in FrameData :
          ( /\ SendVideoFrame(d)
            /\ ~processingFrames
            /\ now - lastAnalysisTime < analysisInterval )
          => /\ frameQueue' # <<>>
             /\ Last(frameQueue').seq = submitted'
      ]_vars

---------------------------------------------------------------------------
(* Further claims about the rate limiter (specification SpecLimiter)       *)

\* C24 (as claimed): every response to a request under /api/, admitted or
\* rejected, carries the X-RateLimit-Limit, X-RateLimit-Remaining and
\* X-RateLimit-Reset headers.
C24_HeadersAlways == response.out.api => response.out.rateHeaders

\* C25: a 429 response reports, in its body and in its Retry-After header
\* alike, the least whole number of seconds that is not less than
\* resetTime - now, and that number is at most the window, 60 seconds.
C25_RetryAfter ==
    response.out.status = 429 =>
        LET r == response.out.retryAfter
        IN  /\ response.out.retryAfterHeader = r
            /\ r * 1000 <= rateLimit.windowMs
            /\ response.out.key \in DOMAIN ipRequestMap =>
                  LET d == ipRequestMap[response.out.key].resetTime
                             - response.out.time
                  IN  /\ r * 1000 >= d
                      /\ (r - 1) * 1000 < d

\* C25 witness: a request was rejected a fraction of a second into the
\* window, and the seconds reported are rounded up to the whole window.
C25_Witness ==
    /\ response.out.status = 429
    /\ response.out.key \in DOMAIN ipRequestMap
    /\ response.out.retryAfter * 1000 >
          ipRequestMap[response.out.key].resetTime - response.out.time
    /\ response.out.retryAfter * 1000 = rateLimit.windowMs

\* C26: after the sweep has run at time now, the table holds no entry
\* whose resetTime is earlier than now, and every entry whose resetTime is
\* not earlier than now is in the table as it was.
C26_Sweep ==
    [][ Sweep =>
          /\ \A k \in DOMAIN ipRequestMap' :
                ipRequestMap'[k].resetTime >= now
          /\ \A k \in DOMAIN ipRequestMap :
                ipRequestMap[k].resetTime >= now =>
                  /\ k \in DOMAIN ipRequestMap'
                  /\ ipRequestMap'[k] = ipRequestMap[k]
      ]_vars

\* C26 witness: the address of the latest request has no entry any more,
\* which only the sweep brings about, while the entry of the other address,
\* whose reset time is the present moment, is still there.
C26_Witness ==
    /\ response.out.api
    /\ response.out.key \notin DOMAIN ipRequestMap
    /\ \E k \in DOMAIN ipRequestMap : ipRequestMap[k].resetTime = now

\* The key the claim gives a request: the client address, or 127.0.0.1
\* for a request without one
OwnKey(ip) == IF ip = "undefined" THEN "127.0.0.1" ELSE ip

\* C27: a request from one address leaves the entry of every other address
\* as it was and adds no entry but its own; whether it is rejected is
\* settled by its own entry and the clock alone; a request without a client
\* address is keyed as 127.0.0.1.
C27_Isolation ==
    [][ \A ip \in Ips, api \in BOOLEAN :
          Middleware(ip, api, FALSE) =>
            LET own == OwnKey(ip)
            IN  /\ response'.out.key = own
                /\ DOMAIN ipRequestMap' \subseteq DOMAIN ipRequestMap \cup {own}
                /\ \A k \in DOMAIN ipRequestMap \ {own} :
                      /\ k \in DOMAIN ipRequestMap'
                      /\ ipRequestMap'[k] = ipRequestMap[k]
                /\ api =>
                      ( response'.out.status = 429 <=>
                          /\ own \in DOMAIN ipRequestMap
                          /\ now <= ipRequestMap[own].resetTime
                          /\ ipRequestMap[own].count >= rateLimit.max )
      ]_vars

\* C27 witness: the address 10.0.0.1 is rejected at its maximum while the
\* requests without an address, keyed 127.0.0.1, have an entry of their own
\* that counts one request.
C27_Witness ==
    /\ response.out.status = 429
    /\ response.out.key = "10.0.0.1"
    /\ "127.0.0.1" \in DOMAIN ipRequestMap
    /\ ipRequestMap["127.0.0.1"].count = 1
    /\ ipRequestMap["10.0.0.1"].count = rateLimit.max

---------------------------------------------------------------------------
(* Claims about the route handlers (specification SpecRoute)               *)

\* C28: the request POST forwards carries temperature 0.1, topP 1, topK 32,
\* maxOutputTokens 256 and the one safety setting of the server, and takes
\* from the caller's body its contents only: what is sent is settled by the
\* contents (and the credential), whatever generation parameters or safety
\* settings the caller supplied.
C28_FixedGeneration ==
    (route.op = "POST" /\ route.outbound # <<>>) =>
        /\ Len(route.outbound) = 1
        /\ route.outbound[1] =
              [ method           |-> "POST",
                url              |-> "GEMINI_API_URL",
                authorization    |-> <<"k">>,
                contents         |-> route.inbound.contents,
                generationConfig |->
                  [ temperature |-> 10, topP |-> 100, topK |-> 32,
                    maxOutputTokens |-> 256 ],
                safetySettings   |->
                  <<[ category  |-> "HARM_CATEGORY_DANGEROUS_CONTENT",
                      threshold |-> "BLOCK_LOW_AND_ABOVE" ]>> ]

\* C28 witness: a body with generation parameters and safety settings of
\* the caller's own has been forwarded.
C28_Witness ==
    /\ route.op = "POST"
    /\ route.stage = "fetch"
    /\ route.outbound # <<>>
    /\ route.inbound.generationConfig.given
    /\ route.inbound.generationConfig.temperature # 10
    /\ route.inbound.safety

\* POST has answered with a failure
PostFailed ==
    /\ route.op = "POST"
    /\ route.stage = "idle"
    /\ route.res.status # 200

\* C29 (as claimed): a failure response of POST has status 500 or 503 and
\* the body fields error, message, details.
C29_Only500Or503 ==
    PostFailed =>
        /\ route.res.status \in {500, 503}
        /\ route.res.keys = {"error", "message", "details"}

\* C29 (amended): a failure response of POST has the body fields error,
\* message, details.  When the remote service answered with an error status
\* and the body of that answer was read, the response has that status, the
\* error 'Gemini API error' and the message taken from that body.  In every
\* other failure the status is 500 and the error is one of the catch
\* block's: no remote call was made (credential missing, inbound body
\* unreadable or null), the remote call was rejected, or the body of the
\* remote answer could not be read, be the remote status OK or not.
C29_RemoteStatusForwarded ==
    PostFailed =>
        /\ route.res.keys = {"error", "message", "details"}
        /\ IF route.remote \in RemoteStatuses /\ route.errorText # <<>>
           THEN /\ route.res.status = route.remote
                /\ route.res.error = "Gemini API error"
                /\ route.res.message = ErrorMessage(route.errorText[1])
           ELSE /\ route.res.status = 500
                /\ route.res.error \in {"Configuration Error", "API Error",
                                        "Unknown Error"}

\* C29 witness: the remote service answered 429 with a readable body and
\* POST answered 429.
C29_Witness ==
    /\ PostFailed
    /\ route.remote = 429
    /\ route.errorText # <<>>
    /\ route.res.status = 429
    /\ route.res.error = "Gemini API error"

\* The credential is missing: unset, empty, or nothing but blanks
MissingKey(env) ==
    ~env.set \/ \A i \in DOMAIN env.value : env.value[i] \in {" ", "\n"}

\* C30: when the credential is missing, a POST request and a GET request
\* have been answered with a failure in the step the request arrived (500
\* 'API Error' with the message of validateApiKey for POST, 503 'Health
\* Check Failed' for GET), and no request to the remote service has been
\* made for them.
C30_NoCallWithoutKey ==
    (route.method \in {"POST", "GET"} /\ MissingKey(route.env)) =>
        /\ route.stage = "idle"
        /\ route.outbound = <<>>
        /\ route.remote = 0
        /\ route.res.status = IF route.op = "POST" THEN 500 ELSE 503
        /\ route.res.error = IF route.op = "POST" THEN "API Error"
                              ELSE "Health Check Failed"
        /\ route.res.message = "GEMINI_API_KEY is not configured"

\* C30 witness: POST received a readable body while the credential was
\* nothing but a blank, and answered 500 without a remote call.
C30_Witness ==
    /\ route.op = "POST"
    /\ route.method = "POST"
    /\ route.env.set
    /\ route.env.value # <<>>
    /\ MissingKey(route.env)
    /\ route.inbound.json
    /\ route.res.status = 500
    /\ route.outbound = <<>>

---------------------------------------------------------------------------
(* Further claims about the parser (specification SpecParser)              *)

\* What follows the marker at m up to the first line break after it,
\* without the whitespace around it
RestOfLine(text, m) ==
    TrimLeft(TrimRight(
        SubSeq(text, m + 1,
               Max({ p \in m..Len(text) : SameLine(text, m, p) }))))

\* C31: the type of every violation the parser produces is the trimmed
\* text between an occurrence of the marker and the first line break after
\* that occurrence, so no character from behind that line break is in it
\* (stated as claimed).
C31_TypeWithinLine ==
    parser.parsed =>
        \A k \in DOMAIN parser.violations :
            \E m \in DOMAIN parser.text :
                /\ parser.text[m] = Marker
                /\ parser.violations[k].type = RestOfLine(parser.text, m)

---------------------------------------------------------------------------
(* Claims about configuration (specification Spec)                         *)

\* The confidence threshold a configuration supplies, in hundredths: one
\* above the confidence the parser gives every violation, one below it
ConfigThreshold(config) == IF config = "cfgHigh" THEN 95 ELSE 50

\* C32: a confidence threshold supplied in a configuration that sendConfig
\* accepted on a connected client is the threshold the confidence gating
\* applies afterwards (stated as claimed, for the response that is parsed
\* next after the sendConfig call): of the violations parsed, those whose
\* confidence is at least the supplied threshold are emitted and no other.
C32_ThresholdRelayed ==
    [][ \A cfg \in Configs, c \in pending, d \in ReplyData :
          ( /\ connected
            /\ emitted = <<Event("config", cfg)>>
            /\ JsonSettle(c, TRUE, d) )
          => LET parsed == ParsedViolations(d.parts, now)
             IN  \A k \in DOMAIN parsed :
                    Emissions(emitted', parsed[k]) =
                      IF parsed[k].confidence >= ConfigThreshold(cfg)
                      THEN Cardinality({ m \in DOMAIN parsed :
                                           parsed[m] = parsed[k] })
                      ELSE 0
      ]_vars

---------------------------------------------------------------------------
(* Further claims about the rate limiter (specification SpecLimiter)       *)

\* C33: when the latest request of an address was rejected with
\* retryAfter = r, the next request of that address, made r seconds or
\* more after the rejected one, is admitted (stated as claimed).
C33_AdmittedAfterRetryAfter ==
    [][ \A ip \in Ips :
          ( /\ response.out.status = 429
            /\ response.out.key = KeyOf(ip)
            /\ now >= response.out.time + 1000 * response.out.retryAfter
            /\ Middleware(ip, TRUE, FALSE) )
          => response'.out.status = 200
      ]_vars

\* C34: a request rejected with 429 leaves the table as it found it: the
\* count of its address is not incremented and its resetTime is not
\* extended, so the moment the address is admitted again is not postponed.
C34_RejectionLeavesEntry ==
    [][ \A ip \in Ips, api \in BOOLEAN :
          (Middleware(ip, api, FALSE) /\ response'.out.status = 429)
          => /\ KeyOf(ip) \in DOMAIN ipRequestMap
             /\ ipRequestMap' = ipRequestMap
      ]_vars

\* C34 witness: an address limited since the start of its window was
\* rejected later in the window, and its entry still ends when it did.
C34_Witness ==
    /\ response.out.status = 429
    /\ response.out.key \in DOMAIN ipRequestMap
    /\ response.out.time > StartTime
    /\ ipRequestMap[response.out.key] =
         [count |-> rateLimit.max, resetTime |-> StartTime + rateLimit.windowMs]

\* C35: the sweep cannot be observed.  The limiter and a limiter that
\* serves the same requests at the same clock readings without ever
\* sweeping return the same response to every request: the same status, the
\* same rate limit headers and the same retryAfter.
C35_SweepUnobservable == response.out = unswept.out

\* C35 witness: an address whose entry, filled to the maximum, had been
\* swept away asked again after the window; the limiter that never sweeps
\* still held the entry, and both admitted the request.
C35_Witness ==
    /\ response.out.api
    /\ response.out.status = 200
    /\ ~response.prev.has
    /\ unswept.prev.has
    /\ unswept.prev.count = rateLimit.max
    /\ unswept.out.status = 200

---------------------------------------------------------------------------
(* Claims about LiveAPIProvider (specification SpecProvider)               *)

\* Nothing is under way in the provider: every state update has been
\* committed, the effects of the latest commit have run, and no connect()
\* is awaiting its GET or its caller
Quiet ==
    /\ provider.effects = {}
    /\ provider.value = [ client    |-> provider.client,
                          connected |-> provider.connected,
                          error     |-> provider.error ]
    /\ \A c \in DOMAIN provider.clients : Connects(provider.clients[c]) = 0

\* C36: whenever the context of LiveAPIProvider publishes connected = true,
\* its current client reports isConnected() = true (stated as claimed, of
\* the mounted provider with nothing under way).
C36_PublishedMatchesClient ==
    (provider.mounted = "yes" /\ Quiet /\ provider.value.connected)
        => IsConnected(provider)

\* C37: sendConfig of the context forwards the config to the client only
\* when client.isConnected() is true, and then the client emits one 'config'
\* event with it.  When there is no client or the client is not connected
\* it logs a warning and does nothing else: no event is emitted, the
\* provider's state stays as it is, and a connect() that completes later
\* emits no 'config' event.
C37_ForwardsOnlyConnected ==
    [][ /\ \A cfg \in Configs :
              ProviderSendConfig(cfg) =>
                IF IsConnected(provider)
                THEN /\ provider'.emitted = <<Event("config", cfg)>>
                     /\ ~provider'.warned
                ELSE provider' = [ provider EXCEPT !.emitted = <<>>,
                                                   !.warned  = TRUE ]
        /\ \A c \in DOMAIN provider.clients :
              /\ \A o \in {"ok"} \cup Failed :
                    ClientConnectSettle(c, o) =>
                       CountType(provider'.emitted, "config") = 0
              /\ \A i \in DOMAIN provider.clients[c].resuming :
                    ProviderConnectResume(c, i) =>
                       CountType(provider'.emitted, "config") = 0
      ]_vars

\* C37 witness: sendConfig of the context was called while its client was
\* not connected, with a connect() under way: the warning was logged and no
\* event emitted.
C37_Witness ==
    /\ provider.value.client # 0
    /\ ~IsConnected(provider)
    /\ provider.clients[provider.value.client].connecting > 0
    /\ provider.warned
    /\ provider.emitted = <<>>

---------------------------------------------------------------------------
(* Claims about VideoProctor (specification SpecProctor)                   *)

\* C38: once the camera has started (cameraActive is true) and the client
\* is connected, every tick of the capture interval that finds a video
\* element and can capture a frame submits the frame with
\* client.sendVideoFrame (stated as claimed, of a mounted VideoProctor with
\* nothing under way).
C38_EveryTickSubmits ==
    [][ \A hasVideo, hasFrame \in BOOLEAN :
          ( /\ ProctorTick(hasVideo, hasFrame)
            /\ hasVideo
            /\ hasFrame
            /\ proctor.mounted = "yes"
            /\ proctor.starting = <<>>
            /\ proctor.cameraActive
            /\ proctor.closure.cameraActive
            /\ Quiet
            /\ provider.value.connected
            /\ IsConnected(provider) )
          => provider'.clients[provider.value.client].submitted =
               provider.clients[provider.value.client].submitted + 1
      ]_vars

---------------------------------------------------------------------------
(* Claims about the proctoring configuration (specification SpecConfig)    *)

\* C39: getDefaultProctoringConfig called without a strictness returns the
\* detectionThresholds it returns for strictness 'medium', the strictness
\* its system prompt is written for (stated as claimed).
C39_DefaultIsMedium ==
    \A i \in DOMAIN proctoringConfig :
        proctoringConfig[i].options = NoStrictness =>
            /\ proctoringConfig[i].value.systemPrompt =
                 getProctoringSystemPrompt("medium")
            /\ proctoringConfig[i].value.detectionThresholds =
                 getDefaultProctoringConfig("medium").detectionThresholds

===========================================================================
